---- MODULE Spec2Model ----
(***************************************************************************)
(* Model of the mittu project-data pipeline: the field normalizers and the *)
(* record cleaner (data_cleaning_script.py, class DataCleaner), the key    *)
(* matcher / joiner (join_data.py, class DataJoiner) and the KPI engine    *)
(* (data_processor.py).                                                    *)
(*                                                                         *)
(* Encoding.                                                               *)
(*  - A Python str is a sequence of one-character strings.                 *)
(*  - A dataframe cell is NaN (the empty tuple) or Val(x) (a 1-tuple).     *)
(*    None and float('nan') are both "missing" for pd.isna and are both    *)
(*    NaN here.                                                            *)
(*  - A dataframe is a sequence of records, one record per row.            *)
(*  - Money amounts are integers (a fixed unit); an exact quotient is a    *)
(*    record [num, den] (float rounding error is not modelled).            *)
(***************************************************************************)
EXTENDS Integers, Sequences, FiniteSets, TLC

VARIABLES
    \* --- the batch pipeline ---------------------------------------------
    pc,            \* position in the batch: which stage ran last
    projetos_df,   \* Projetos_clean.csv as read by prepare_dataframes
    horas_df,      \* Horas_clean.csv
    custos_df,     \* Custos_clean.csv
    base_df,       \* the key universe, list(all_keys)
    merged,        \* the joined table (joined_projects_data.csv)
    df,            \* the table returned by load_and_clean_data
    kpis,          \* the dictionary returned by calculate_kpis
    area_data,     \* the table returned by get_area_analysis
    cost_comparison, \* the table returned by prepare_cost_comparison_data
    \* --- direct calls of the two key functions --------------------------
    arg_project_id, \* argument project_id of match_project_key
    arg_projeto,    \* argument projeto / name
    ret_key,        \* NaN before the call, Val(result) after
    ret_name,       \* NaN before the call, Val(result) after
    \* --- direct calls of one field normalizer ---------------------------
    norm_fn,        \* the normalizer that is called
    norm_arg,       \* the value it is first called with
    norm_ret,       \* the results so far: <<>>, <<N(x)>> or <<N(x), N(N(x))>>
    \* --- the interpreter and C library the program runs on --------------
    int_has_is_integer,  \* int.is_integer exists (Python 3.12 and later)
    strftime_pads_year,  \* strftime('%Y') zero-fills a year below 1000
    \* --- run_all_cleaning ------------------------------------------------
    clean_pc,       \* position in run_all_cleaning
    raw_files,      \* the three raw files: a table, or Missing
    clean_files,    \* the cleaned files written so far
    quality_report, \* self.quality_report
    success         \* the local variable success; the return value at the end

vars == <<pc, projetos_df, horas_df, custos_df, base_df, merged, df, kpis,
          area_data, cost_comparison, arg_project_id, arg_projeto, ret_key,
          ret_name,
          norm_fn, norm_arg, norm_ret, int_has_is_integer, strftime_pads_year,
          clean_pc, raw_files, clean_files, quality_report, success>>

pipeVars == <<pc, projetos_df, horas_df, custos_df, base_df, merged, df,
              kpis, area_data, cost_comparison>>

keyVars == <<arg_project_id, arg_projeto, ret_key, ret_name>>

normVars == <<norm_fn, norm_arg, norm_ret>>

platformVars == <<int_has_is_integer, strftime_pads_year>>

cleanVars == <<clean_pc, raw_files, clean_files, quality_report, success>>

----------------------------------------------------------------------------
(* Bounds *)

\* total number of rows over the three cleaned tables
MaxRows == 5

\* longest project_id string given to match_project_key directly
MaxIdLen == 2

\* longest display name given to the key functions directly
MaxNameLen == 3

\* most blanks before and after a value given to a normalizer
MaxPad == 1

\* longest free-form text given to a normalizer
MaxJunkLen == 3

\* most rows of a raw file
MaxRawRows == 2

----------------------------------------------------------------------------
(* Cells, sequences, strings *)

NaN == <<>>

Val(x) == <<x>>

IsNa(c) == c = NaN

Get(c) == c[1]

Range(s) == {s[i] : i \in 1..Len(s)}

SeqsUpTo(S, n) == UNION {[1..k -> S] : k \in 0..n}

NonEmptySeqsUpTo(S, n) == UNION {[1..k -> S] : k \in 1..n}

RECURSIVE SumSeq(_)
SumSeq(s) == IF s = <<>> THEN 0 ELSE Head(s) + SumSeq(Tail(s))

\* characters of the model's alphabet, by the classes Python's re / str use
UpperLetters ==
    <<"A", "B", "C", "D", "E", "F", "G", "H", "I", "J", "K", "L", "M", "N",
      "O", "P", "Q", "R", "S", "T", "U", "V", "W", "X", "Y", "Z",
      "I_ACUTE", "A_TILDE">>

LowerLetters ==
    <<"a", "b", "c", "d", "e", "f", "g", "h", "i", "j", "k", "l", "m", "n",
      "o", "p", "q", "r", "s", "t", "u", "v", "w", "x", "y", "z",
      "i_acute", "a_tilde">>

Upper == Range(UpperLetters)

WordChars == {"a", "A", "p", "P", "1", "2", "_"}

SpaceChars == {" ", "\t"}

\* str.lower() on one character
LowerChar(c) ==
    IF c \in Upper
    THEN LowerLetters[CHOOSE i \in 1..Len(UpperLetters) : UpperLetters[i] = c]
    ELSE c

\* str.lower()
RECURSIVE lower(_)
lower(s) == IF s = <<>> THEN <<>> ELSE <<LowerChar(Head(s))>> \o lower(Tail(s))

\* str.strip(): drop leading and trailing whitespace
RECURSIVE lstrip(_)
lstrip(s) == IF s # <<>> /\ Head(s) \in SpaceChars THEN lstrip(Tail(s)) ELSE s

RECURSIVE rstrip(_)
rstrip(s) ==
    IF s # <<>> /\ s[Len(s)] \in SpaceChars
    THEN rstrip(SubSeq(s, 1, Len(s) - 1))
    ELSE s

strip(s) == rstrip(lstrip(s))

\* re.sub(r'[^\w\s]', '', s): delete every char that is neither word nor space
RemoveNonWordNonSpace(s) ==
    SelectSeq(s, LAMBDA c : c \in WordChars \/ c \in SpaceChars)

\* re.sub(r'\s+', ' ', s): every maximal whitespace run becomes one ' '
RECURSIVE CollapseWhitespace(_)
CollapseWhitespace(s) ==
    IF s = <<>> THEN <<>>
    ELSE IF Head(s) \in SpaceChars
         THEN <<" ">> \o CollapseWhitespace(lstrip(s))
         ELSE <<Head(s)>> \o CollapseWhitespace(Tail(s))

----------------------------------------------------------------------------
(* join_data.py: DataJoiner *)

\* standardize_project_name(name); name is a cell, the result a str
standardize_project_name(name) ==
    IF IsNa(name) THEN <<>>
    ELSE LET s1 == strip(lower(Get(name)))
             s2 == RemoveNonWordNonSpace(s1)
         IN  CollapseWhitespace(s2)

\* match_project_key(project_id, projeto); both are cells, the result a str
match_project_key(project_id, projeto) ==
    IF ~IsNa(project_id) /\ Get(project_id) # <<>>
       /\ strip(Get(project_id)) # <<>>
    THEN Get(project_id)
    ELSE IF ~IsNa(projeto) /\ Get(projeto) # <<>>
         THEN standardize_project_name(projeto)
         ELSE <<>>

\* the first row of right whose match_key equals k: a many-to-one join
Matching_first(right, k) ==
    LET m == SelectSeq(right, LAMBDA r : r.match_key = k)
    IN  IF m = <<>> THEN <<>> ELSE <<Head(m)>>

\* the rows of right whose match_key equals k, in right's order
Matching(right, k) == SelectSeq(right, LAMBDA r : r.match_key = k)

\* the concatenation of a sequence of sequences
RECURSIVE Concat(_)
Concat(ss) == IF ss = <<>> THEN <<>> ELSE Head(ss) \o Concat(Tail(ss))

\* the all-NaN right rows a left join pairs an unmatched left row with
ProjetoNull ==
    [project_id |-> NaN, projeto |-> NaN, status |-> NaN, area |-> NaN,
     conclusao |-> NaN, custo_previsto |-> NaN, projeto_source_id |-> NaN]

HorasNull ==
    [project_id |-> NaN, projeto |-> NaN, horas |-> NaN, horas_source_id |-> NaN]

CustoNull ==
    [project_id |-> NaN, projeto |-> NaN, valor |-> NaN, custo_source_id |-> NaN]

\* a row of base_df.merge(projetos_df, on='match_key', how='left')
ProjetoJoin(l, r) ==
    [match_key |-> l.match_key,
     project_id |-> r.project_id, projeto |-> r.projeto, status |-> r.status,
     area |-> r.area, conclusao |-> r.conclusao,
     custo_previsto |-> r.custo_previsto,
     projeto_source_id |-> r.projeto_source_id]

\* a row of merged.merge(horas_df, ..., suffixes=('', '_horas')): project_id
\* and projeto collide with the Projetos columns and take the suffix
HorasJoin(l, r) ==
    [match_key |-> l.match_key,
     project_id |-> l.project_id, projeto |-> l.projeto, status |-> l.status,
     area |-> l.area, conclusao |-> l.conclusao,
     custo_previsto |-> l.custo_previsto,
     projeto_source_id |-> l.projeto_source_id,
     project_id_horas |-> r.project_id, projeto_horas |-> r.projeto,
     horas |-> r.horas, horas_source_id |-> r.horas_source_id]

\* a row of merged.merge(custos_df, ..., suffixes=('', '_custo'))
CustoJoin(l, r) ==
    [match_key |-> l.match_key,
     project_id |-> l.project_id, projeto |-> l.projeto, status |-> l.status,
     area |-> l.area, conclusao |-> l.conclusao,
     custo_previsto |-> l.custo_previsto,
     projeto_source_id |-> l.projeto_source_id,
     project_id_horas |-> l.project_id_horas, projeto_horas |-> l.projeto_horas,
     horas |-> l.horas, horas_source_id |-> l.horas_source_id,
     project_id_custo |-> r.project_id, projeto_custo |-> r.projeto,
     valor |-> r.valor, custo_source_id |-> r.custo_source_id]

\* left.merge(right, on='match_key', how='left'): the left order is kept; a
\* left row pairs with every matching right row, in right's order, and with
\* the all-NaN row when nothing matches
OrNull(m, null) == IF m = <<>> THEN <<null>> ELSE m

MergeProjetos(left, right) ==
    Concat([i \in 1..Len(left) |->
        LET m == OrNull(Matching(right, left[i].match_key), ProjetoNull)
        IN  [j \in 1..Len(m) |-> ProjetoJoin(left[i], m[j])]])

MergeHoras(left, right) ==
    Concat([i \in 1..Len(left) |->
        LET m == OrNull(Matching(right, left[i].match_key), HorasNull)
        IN  [j \in 1..Len(m) |-> HorasJoin(left[i], m[j])]])

MergeCustos(left, right) ==
    Concat([i \in 1..Len(left) |->
        LET m == OrNull(Matching(right, left[i].match_key), CustoNull)
        IN  [j \in 1..Len(m) |-> CustoJoin(left[i], m[j])]])

\* prepare_dataframes + the source-id lines of full_outer_join_data: every
\* row gets its match_key and the index of the row in its table
ProjetosPrepared(t) ==
    [i \in 1..Len(t) |->
        [project_id |-> t[i].project_id, projeto |-> t[i].projeto,
         status |-> t[i].status, area |-> t[i].area,
         conclusao |-> t[i].conclusao, custo_previsto |-> t[i].custo_previsto,
         match_key |-> match_project_key(t[i].project_id, t[i].projeto),
         projeto_source_id |-> Val(i - 1)]]

HorasPrepared(t) ==
    [i \in 1..Len(t) |->
        [project_id |-> t[i].project_id, projeto |-> t[i].projeto,
         horas |-> t[i].horas,
         match_key |-> match_project_key(t[i].project_id, t[i].projeto),
         horas_source_id |-> Val(i - 1)]]

CustosPrepared(t) ==
    [i \in 1..Len(t) |->
        [project_id |-> t[i].project_id, projeto |-> t[i].projeto,
         valor |-> t[i].valor,
         match_key |-> match_project_key(t[i].project_id, t[i].projeto),
         custo_source_id |-> Val(i - 1)]]

\* the keys of a table with the empty key left out
KeySet_without_empty(t) == {t[i].match_key : i \in 1..Len(t)} \ {<<>>}

\* set(df['match_key'].dropna().unique()); a match_key is a str, never NaN
KeySet(t) == {t[i].match_key : i \in 1..Len(t)}

\* all_keys without the keys of the cost entries
all_keys_without_custos(p, h, c) == KeySet(p) \cup KeySet(h)

\* all_keys of full_outer_join_data
all_keys(p, h, c) == KeySet(p) \cup KeySet(h) \cup KeySet(c)

\* the orders list(all_keys) can have: the iteration order of a Python set
\* is not specified
ListsOf(S) ==
    {f \in [1..Cardinality(S) -> S] : \A i, j \in 1..Cardinality(S) :
        f[i] = f[j] => i = j}

\* the three left joins onto the key universe
MergeAll(base, p, h, c) ==
    LET b0 == [i \in 1..Len(base) |-> [match_key |-> base[i]]]
    IN  MergeCustos(MergeHoras(MergeProjetos(b0, p), h), c)

\* match_quality with the "full" assignment made before the "partial" ones
match_quality_full_first(has_projeto, has_horas, has_custo) ==
    LET q0 == "unmatched"
        q1 == IF has_projeto /\ has_horas /\ has_custo THEN "full" ELSE q0
        q2 == IF has_projeto /\ has_horas THEN "partial" ELSE q1
        q3 == IF has_projeto /\ has_custo THEN "partial" ELSE q2
    IN  IF has_horas /\ has_custo THEN "partial" ELSE q3

\* the match_quality add_match_flags leaves in a row: a default and four
\* masked assignments, in the order of the code
match_quality(has_projeto, has_horas, has_custo) ==
    LET q0 == "unmatched"
        q1 == IF has_projeto /\ has_horas THEN "partial" ELSE q0
        q2 == IF has_projeto /\ has_custo THEN "partial" ELSE q1
        q3 == IF has_horas /\ has_custo THEN "partial" ELSE q2
    IN  IF has_projeto /\ has_horas /\ has_custo THEN "full" ELSE q3

\* the row add_match_flags makes of row r of the joined table
WithMatchFlags(r) ==
    LET hp == ~IsNa(r.projeto_source_id)
        hh == ~IsNa(r.horas_source_id)
        hc == ~IsNa(r.custo_source_id)
    IN  [match_key |-> r.match_key, project_id |-> r.project_id,
         projeto |-> r.projeto, status |-> r.status, area |-> r.area,
         conclusao |-> r.conclusao, custo_previsto |-> r.custo_previsto,
         projeto_source_id |-> r.projeto_source_id,
         project_id_horas |-> r.project_id_horas,
         projeto_horas |-> r.projeto_horas, horas |-> r.horas,
         horas_source_id |-> r.horas_source_id,
         project_id_custo |-> r.project_id_custo,
         projeto_custo |-> r.projeto_custo, valor |-> r.valor,
         custo_source_id |-> r.custo_source_id,
         has_projeto_data |-> hp, has_horas_data |-> hh, has_custo_data |-> hc,
         match_quality |-> match_quality(hp, hh, hc)]

\* add_match_flags(merged_df)
add_match_flags(m) == [i \in 1..Len(m) |-> WithMatchFlags(m[i])]

----------------------------------------------------------------------------
(* data_processor.py *)

\* an exact quotient num / den
Rat(n, d) == [num |-> n, den |-> d]

RatEq(a, b) == a.num * b.den = b.num * a.den

\* "n%" -> float(n) / 100; a missing conclusao stays missing
conclusao_clean(c) == IF IsNa(c) THEN NaN ELSE Val(Rat(Get(c), 100))

\* pd.to_numeric(col, errors='coerce').fillna(0) on a numeric-or-empty cell
numeric_fillna0(c) == IF IsNa(c) THEN 0 ELSE Get(c)

\* pd.read_csv reads an empty field back as NaN, so the empty match_key is
\* missing after the round trip through the joined file
ReadKey(k) == IF k = <<>> THEN NaN ELSE Val(k)

\* the row load_and_clean_data makes of row r of the joined file: the file's
\* columns as read back, and the three cleaned columns.  The date columns
\* (inicio, prazo) are not part of the model.
LoadedRow(r) ==
    [match_key |-> ReadKey(r.match_key), project_id |-> r.project_id,
         projeto |-> r.projeto, status |-> r.status, area |-> r.area,
         conclusao |-> r.conclusao, custo_previsto |-> r.custo_previsto,
         projeto_source_id |-> r.projeto_source_id,
         project_id_horas |-> r.project_id_horas,
         projeto_horas |-> r.projeto_horas, horas |-> r.horas,
         horas_source_id |-> r.horas_source_id,
         project_id_custo |-> r.project_id_custo,
         projeto_custo |-> r.projeto_custo, valor |-> r.valor,
         custo_source_id |-> r.custo_source_id,
         has_projeto_data |-> r.has_projeto_data,
         has_horas_data |-> r.has_horas_data,
         has_custo_data |-> r.has_custo_data,
         match_quality |-> r.match_quality,
         conclusao_clean |-> conclusao_clean(r.conclusao),
         valor_clean |-> numeric_fillna0(r.valor),
         custo_previsto_clean |-> numeric_fillna0(r.custo_previsto)]

\* load_and_clean_data(csv_path), m being the content of the file: the rows
\* with an empty project_id are removed
load_and_clean_data(m) ==
    LET kept == SelectSeq(m, LAMBDA r : ~IsNa(r.project_id)
                                         /\ Get(r.project_id) # <<>>)
    IN  [i \in 1..Len(kept) |-> LoadedRow(kept[i])]

\* Series.nunique() of column col: NaN is not counted
nunique(d, col) ==
    Cardinality({d[i][col] : i \in {j \in 1..Len(d) : ~IsNa(d[j][col])}})

\* df.drop_duplicates(subset=[col]): the first row of every value of the
\* column is kept, NaN being a value like the others
drop_duplicates(d, col) ==
    LET first(i) == \A j \in 1..(i - 1) : d[j][col] # d[i][col]
        RECURSIVE keep(_)
        keep(i) == IF i > Len(d) THEN <<>>
                   ELSE (IF first(i) THEN <<d[i]>> ELSE <<>>) \o keep(i + 1)
    IN  keep(1)

\* the groups of df.groupby(col): the rows of each non-missing value
GroupKeys(d, col) == {Get(d[i][col]) : i \in {j \in 1..Len(d) : ~IsNa(d[j][col])}}

Group(d, col, g) == SelectSeq(d, LAMBDA r : r[col] = Val(g))

\* Series.sum() of an integer column
ColSum(d, col) == SumSeq([i \in 1..Len(d) |-> d[i][col]])

\* the mean taken over every row, a missing cell counting as 0
ColMean_over_all_rows(d, col) ==
    LET present == SelectSeq(d, LAMBDA r : ~IsNa(r[col]))
    IN  IF d = <<>> THEN NaN
        ELSE Val(Rat(SumSeq([i \in 1..Len(present) |-> Get(present[i][col]).num]),
                     100 * Len(d)))

\* Series.mean() of conclusao_clean: missing cells are skipped, and the mean
\* of no value at all is NaN.  Every cell is n/100.
ColMean(d, col) ==
    LET present == SelectSeq(d, LAMBDA r : ~IsNa(r[col]))
    IN  IF present = <<>> THEN NaN
        ELSE Val(Rat(SumSeq([i \in 1..Len(present) |-> Get(present[i][col]).num]),
                     100 * Len(present)))

\* status_counts counting the rows of each status, not the distinct projects
status_counts_rows(d) ==
    [g \in GroupKeys(d, "status") |-> Len(Group(d, "status", g))]

\* df.groupby('status')['project_id'].nunique().to_dict()
status_counts(d) ==
    [g \in GroupKeys(d, "status") |-> nunique(Group(d, "status", g), "project_id")]

\* planned_costs summed over every joined row, without the deduplication
planned_costs_all_rows(d) == ColSum(d, "custo_previsto_clean")

\* planned_costs of calculate_kpis
planned_costs(d) == ColSum(drop_duplicates(d, "project_id"), "custo_previsto_clean")

\* avg_completion if not np.isnan(avg_completion) else 0.0
avg_completion(d) ==
    LET m == ColMean(d, "conclusao_clean")
    IN  IF ~IsNa(m) THEN Get(m) ELSE Rat(0, 1)

\* ((actual - planned) / planned * 100) if planned > 0 else 0.0
cost_variance(actual, planned) ==
    IF planned > 0 THEN Rat((actual - planned) * 100, planned) ELSE Rat(0, 1)

\* calculate_kpis(df)
calculate_kpis(d) ==
    LET planned == planned_costs(d)
        actual  == ColSum(d, "valor_clean")
    IN  [total_projects |-> nunique(d, "project_id"),
         status_counts  |-> status_counts(d),
         avg_completion |-> avg_completion(d),
         planned_costs  |-> planned,
         actual_costs   |-> actual,
         cost_variance  |-> cost_variance(actual, planned)]

\* the area values of the model in sorted order (groupby sorts its keys)
Areas == <<"rh", "ti">>

\* Series.count(): the number of non-missing cells
ColCount(d, col) == Len(SelectSeq(d, LAMBDA r : ~IsNa(r[col])))

\* round(x, 2) of a non-negative quotient, ties to even, as a number of
\* hundredths
Round2(q) ==
    LET n == q.num * 100
        f == n \div q.den
        r == n % q.den
    IN  IF 2 * r < q.den THEN Rat(f, 100)
        ELSE IF 2 * r > q.den THEN Rat(f + 1, 100)
        ELSE IF f % 2 = 0 THEN Rat(f, 100) ELSE Rat(f + 1, 100)

\* get_area_analysis grouping the joined rows without deduplicating them
get_area_analysis_all_rows(d) ==
    LET keys  == SelectSeq(Areas, LAMBDA a : a \in GroupKeys(d, "area"))
        row(a) ==
            LET g == Group(d, "area", a)
                m == ColMean(g, "conclusao_clean")
            IN  [area |-> a,
                 qtd_projetos |-> ColCount(g, "project_id"),
                 custo_previsto_total |-> ColSum(g, "custo_previsto_clean"),
                 conclusao_media |-> IF IsNa(m) THEN NaN ELSE Val(Round2(Get(m))),
                 custo_real_total |-> ColSum(g, "valor_clean")]
    IN  [i \in 1..Len(keys) |-> row(keys[i])]

\* get_area_analysis(df): one row per area, in sorted order
get_area_analysis(d) ==
    LET uniq  == drop_duplicates(d, "project_id")
        keys  == SelectSeq(Areas, LAMBDA a : a \in GroupKeys(uniq, "area"))
        row(a) ==
            LET g == Group(uniq, "area", a)
                m == ColMean(g, "conclusao_clean")
            IN  [area |-> a,
                 qtd_projetos |-> ColCount(g, "project_id"),
                 custo_previsto_total |-> ColSum(g, "custo_previsto_clean"),
                 conclusao_media |-> IF IsNa(m) THEN NaN ELSE Val(Round2(Get(m))),
                 custo_real_total |-> ColSum(Group(d, "area", a), "valor_clean")]
    IN  [i \in 1..Len(keys) |-> row(keys[i])]


\* lines 175-178: (real - planned) / planned * 100, rounded to two decimals,
\* in floating point: a non-zero amount over zero is an infinity (an exact
\* quotient with denominator 0 and the sign as numerator), 0 over 0 is NaN
variance_percent(custo_real_total, custo_previsto_clean) ==
    LET n == (custo_real_total - custo_previsto_clean) * 100
    IN  IF custo_previsto_clean = 0
        THEN IF n = 0 THEN NaN ELSE Val(Rat(IF n > 0 THEN 1 ELSE -1, 0))
        ELSE IF custo_previsto_clean > 0
             THEN Val(Round2(Rat(n, custo_previsto_clean)))
             ELSE Val(Round2(Rat(0 - n, 0 - custo_previsto_clean)))

\* prepare_cost_comparison_data(df): one row per project identifier, with
\* the planned cost of its first row and the sum of the values of its rows
prepare_cost_comparison_data(d) ==
    LET planned == drop_duplicates(d, "project_id")
        actual(project_id) == ColSum(Group(d, "project_id", project_id),
                                     "valor_clean")
    IN  [i \in 1..Len(planned) |->
            LET custo_real_total == actual(Get(planned[i].project_id))
            IN  [project_id |-> planned[i].project_id,
                 area |-> planned[i].area,
                 custo_previsto_clean |-> planned[i].custo_previsto_clean,
                 custo_real_total |-> custo_real_total,
                 variance_percent |->
                     variance_percent(custo_real_total,
                                      planned[i].custo_previsto_clean)]]
----------------------------------------------------------------------------
(* data_cleaning_script.py: Python values and built-ins the normalizers use *)
(*                                                                         *)
(*  - A value handed to or returned by a normalizer is a tagged record:    *)
(*    None, float('nan'), a str, a float, or the exception that was raised.*)
(*  - A float is an exact decimal m * 10^-e, m without trailing zeros when *)
(*    e > 0.  The alphabets the inputs are drawn from have no "e", "f" and *)
(*    "_" next to digits, so no exponent, no infinity and no digit         *)
(*    grouping reaches float(); every float of the model lies in the range *)
(*    where repr() uses the positional notation (1e-4 <= |x| < 1e16).      *)
(*  - An accented letter is one character with a name of its own           *)
(*    ("i_acute"); "acute" is the combining accent on its own.             *)

PyNone == [t |-> "None"]

PyNan == [t |-> "nan"]

PyStr(s) == [t |-> "str", s |-> s]

RECURSIVE NormalizeDecimal(_, _)
NormalizeDecimal(m, e) ==
    IF e > 0 /\ m % 10 = 0 THEN NormalizeDecimal(m \div 10, e - 1)
    ELSE [t |-> "float", m |-> m, e |-> e]

PyFloat(m, e) == NormalizeDecimal(m, e)

Raised(exc) == [t |-> "raise", exc |-> exc]

ValueError == [t |-> "ValueError"]

\* pd.isna(v)
isna(v) == v.t \in {"None", "nan"}

Digits == <<"0", "1", "2", "3", "4", "5", "6", "7", "8", "9">>

DigitChars == Range(Digits)

DigitVal(c) == (CHOOSE i \in 1..10 : Digits[i] = c) - 1

RECURSIVE DigitsToInt(_)
DigitsToInt(s) ==
    IF s = <<>> THEN 0
    ELSE DigitsToInt(SubSeq(s, 1, Len(s) - 1)) * 10 + DigitVal(s[Len(s)])

RECURSIVE IntToDigits(_)
IntToDigits(n) ==
    IF n < 10 THEN <<Digits[n + 1]>>
    ELSE IntToDigits(n \div 10) \o <<Digits[(n % 10) + 1]>>

RECURSIVE Pow10(_)
Pow10(k) == IF k = 0 THEN 1 ELSE 10 * Pow10(k - 1)

Abs(n) == IF n < 0 THEN 0 - n ELSE n

\* zero-fill a digit string on the left up to width w
RECURSIVE ZeroFill(_, _)
ZeroFill(s, w) == IF Len(s) >= w THEN s ELSE ZeroFill(<<"0">> \o s, w)

\* format(n, '0wd'): the sign counts in the width
FormatInt(n, w) ==
    IF n < 0 THEN <<"-">> \o ZeroFill(IntToDigits(0 - n), w - 1)
    ELSE ZeroFill(IntToDigits(n), w)

\* str.replace(old, new) for a one-character old; new is a str
RECURSIVE replace(_, _, _)
replace(s, old, new) ==
    IF s = <<>> THEN <<>>
    ELSE (IF Head(s) = old THEN new ELSE <<Head(s)>>)
         \o replace(Tail(s), old, new)

\* the position of the last occurrence of c in s, 0 when there is none
\* (str.rfind + 1)
RECURSIVE rfind(_, _)
rfind(s, c) ==
    IF s = <<>> THEN 0
    ELSE IF s[Len(s)] = c THEN Len(s)
         ELSE rfind(SubSeq(s, 1, Len(s) - 1), c)

\* the str slice s[i:j] for 0 <= i <= j (Python indices, clipped to len(s))
Slice(s, i, j) ==
    SubSeq(s, i + 1, IF j > Len(s) THEN Len(s) ELSE j)

IsDigits(s) == s # <<>> /\ \A i \in 1..Len(s) : s[i] \in DigitChars

\* an optional sign in front of body
SignOf(s) == IF s # <<>> /\ s[1] = "-" THEN -1 ELSE 1

Unsigned(s) == IF s # <<>> /\ s[1] \in {"+", "-"} THEN Tail(s) ELSE s

\* int(s) of a str: surrounding whitespace and one sign are accepted
int(s) ==
    LET body == Unsigned(strip(s))
    IN  IF IsDigits(body)
        THEN [t |-> "int", n |-> SignOf(strip(s)) * DigitsToInt(body)]
        ELSE ValueError

\* float(s) of a str: surrounding whitespace, one sign, then nan in any case
\* or digits with at most one point and at least one digit
float(s) ==
    LET body == Unsigned(strip(s))
        dot == rfind(body, ".")
        whole == IF dot = 0 THEN body ELSE SubSeq(body, 1, dot - 1)
        frac == IF dot = 0 THEN <<>> ELSE SubSeq(body, dot + 1, Len(body))
    IN  IF lower(body) = <<"n", "a", "n">> THEN PyNan
        ELSE IF /\ whole \o frac # <<>>
                /\ \A i \in 1..Len(whole \o frac) :
                        (whole \o frac)[i] \in DigitChars
             THEN PyFloat(SignOf(strip(s)) * DigitsToInt(whole \o frac),
                          Len(frac))
             ELSE ValueError

\* repr(x) of a float, which is also str(x)
FloatRepr(x) ==
    LET a == Abs(x.m)
        whole == a \div Pow10(x.e)
        frac == a % Pow10(x.e)
    IN  (IF x.m < 0 THEN <<"-">> ELSE <<>>)
        \o IntToDigits(whole) \o <<".">>
        \o (IF x.e = 0 THEN <<"0">> ELSE ZeroFill(IntToDigits(frac), x.e))

\* str(v) of a value a normalizer is given
str(v) ==
    IF v.t = "str" THEN v.s
    ELSE IF v.t = "float" THEN FloatRepr(v)
    ELSE IF v.t = "nan" THEN <<"n", "a", "n">>
    ELSE <<"N", "o", "n", "e">>

\* the four spellings of a missing value the normalizers test for
NullMarkers ==
    {<<"n", "u", "l", "l">>, <<"n", "o", "n", "e">>, <<"n", "a", "n">>,
     <<"n", "/", "a">>}

\* pd.isna(v) or v == '' or str(v).lower() in ['null', 'none', 'nan', 'n/a']
IsNullInput(v) == isna(v) \/ v = PyStr(<<>>) \/ lower(str(v)) \in NullMarkers

----------------------------------------------------------------------------
(* data_cleaning_script.py: DataCleaner.standardize_date *)

DateSeparators == {"-", ".", "/"}

RemoveSeparators(s) == SelectSeq(s, LAMBDA c : c \notin DateSeparators)

\* the parts of s between the occurrences of sep
RECURSIVE Split(_, _)
Split(s, sep) ==
    LET at == CHOOSE i \in 1..(Len(s) + 1) :
                  /\ (i = Len(s) + 1 \/ s[i] = sep)
                  /\ \A j \in 1..(i - 1) : s[j] # sep
    IN  IF at = Len(s) + 1 THEN <<s>>
        ELSE <<SubSeq(s, 1, at - 1)>> \o Split(SubSeq(s, at + 1, Len(s)), sep)

NonZeroDigits == DigitChars \ {"0"}

\* the directives of datetime.strptime as the regular expressions it builds:
\* %d is 3[0-1]|[1-2]\d|0[1-9]|[1-9]| [1-9]
MatchesDay(f) ==
    \/ Len(f) = 1 /\ f[1] \in NonZeroDigits
    \/ /\ Len(f) = 2
       /\ \/ f[1] = "3" /\ f[2] \in {"0", "1"}
          \/ f[1] \in {"1", "2"} /\ f[2] \in DigitChars
          \/ f[1] \in {"0", " "} /\ f[2] \in NonZeroDigits

\* %m is 1[0-2]|0[1-9]|[1-9]
MatchesMonth(f) ==
    \/ Len(f) = 1 /\ f[1] \in NonZeroDigits
    \/ /\ Len(f) = 2
       /\ \/ f[1] = "1" /\ f[2] \in {"0", "1", "2"}
          \/ f[1] = "0" /\ f[2] \in NonZeroDigits

\* %y is \d\d and %Y is \d\d\d\d
MatchesYear(f, width) == Len(f) = width /\ IsDigits(f)

IsLeap(y) == y % 4 = 0 /\ (y % 100 # 0 \/ y % 400 = 0)

DaysInMonth(y, m) ==
    IF m = 2 THEN (IF IsLeap(y) THEN 29 ELSE 28)
    ELSE IF m \in {4, 6, 9, 11} THEN 30 ELSE 31

\* the year strptime gives to a %y field: POSIX, 69-99 are 19xx, 0-68 20xx
CenturyOf(yy) == IF yy <= 68 THEN 2000 + yy ELSE 1900 + yy

\* a format of formats_to_try: the separator, the width of the year field
\* (2 for %y, 4 for %Y) and whether the year comes first
DateFormat(sep, width, year_first) ==
    [sep |-> sep, width |-> width, year_first |-> year_first]

formats_to_try ==
    <<DateFormat("/", 2, FALSE), DateFormat(".", 2, FALSE),
      DateFormat("-", 2, FALSE),
      DateFormat("-", 4, TRUE), DateFormat("/", 4, FALSE),
      DateFormat(".", 4, FALSE), DateFormat("-", 4, FALSE)>>

\* datetime.strptime(s, fmt): a date, or ValueError when s does not match
\* the format as a whole or names no day of the calendar
strptime(s, fmt) ==
    LET parts == Split(s, fmt.sep)
    IN  IF Len(parts) # 3 THEN ValueError
        ELSE LET y == IF fmt.year_first THEN parts[1] ELSE parts[3]
                 m == parts[2]
                 d == IF fmt.year_first THEN parts[3] ELSE parts[1]
             IN  IF ~(MatchesYear(y, fmt.width) /\ MatchesMonth(m)
                      /\ MatchesDay(d))
                 THEN ValueError
                 ELSE LET year == IF fmt.width = 2
                                  THEN CenturyOf(DigitsToInt(y))
                                  ELSE DigitsToInt(y)
                          month == DigitsToInt(m)
                          day == DigitsToInt(strip(d))
                      IN  IF year >= 1 /\ day <= DaysInMonth(year, month)
                          THEN [t |-> "date", year |-> year,
                                month |-> month, day |-> day]
                          ELSE ValueError

\* date_obj.strftime('%Y-%m-%d'): the C library decides whether a year below
\* 1000 is zero-filled
strftime(date_obj) ==
    (IF strftime_pads_year THEN FormatInt(date_obj.year, 4)
     ELSE IntToDigits(date_obj.year))
    \o <<"-">> \o FormatInt(date_obj.month, 2)
    \o <<"-">> \o FormatInt(date_obj.day, 2)

\* lines 67-80: a 10-character string with separators at 4 and 7 whose middle
\* group is above 12 is rewritten from year-day-month to year-month-day
YearDayMonthCorrected(s) ==
    IF ~(Len(s) = 10 /\ s[5] \in DateSeparators /\ s[8] \in DateSeparators)
    THEN s
    ELSE LET year == int(Slice(s, 0, 4))
             day == int(RemoveSeparators(Slice(s, 5, 8)))
             month == int(RemoveSeparators(Slice(s, 8, 11)))
         IN  IF /\ year.t = "int" /\ day.t = "int" /\ month.t = "int"
                /\ day.n > 12 /\ month.n <= 12
             THEN FormatInt(year.n, 4) \o <<"-">> \o FormatInt(month.n, 2)
                  \o <<"-">> \o FormatInt(day.n, 2)
             ELSE s

\* lines 94-100: the pivot the code applies to the year of a %y format
TwoDigitYearPivot(date_obj, fmt) ==
    IF fmt.width = 2 /\ date_obj.year < 100
    THEN [date_obj EXCEPT !.year =
              IF date_obj.year < 50 THEN 2000 + date_obj.year
              ELSE 1900 + date_obj.year]
    ELSE date_obj

\* lines 90-106: the first format of fmts that parses s decides
RECURSIVE TryFormats(_, _)
TryFormats(s, fmts) ==
    IF fmts = <<>> THEN <<>>
    ELSE LET date_obj == strptime(s, Head(fmts))
         IN  IF date_obj.t = "date"
             THEN strftime(TwoDigitYearPivot(date_obj, Head(fmts)))
             ELSE TryFormats(s, Tail(fmts))

standardize_date(date_string) ==
    IF IsNullInput(date_string) THEN PyStr(<<>>)
    ELSE PyStr(TryFormats(YearDayMonthCorrected(strip(str(date_string))),
                          formats_to_try))

----------------------------------------------------------------------------
(* data_cleaning_script.py: the other field normalizers of DataCleaner *)

\* x < 100 for a float x
BelowHundred(x) == x.m < 100 * Pow10(x.e)

\* float.is_integer()
is_integer(x) == x.e = 0

\* lines 136-142 and 150-156: num_value = min(100, num_value) is the int 100
\* unless the float is below 100 (it is 100 for nan, too); is_integer() of
\* an int exists from Python 3.12 on and raises AttributeError before
FormatConclusao(num_value, point) ==
    IF num_value.t = "nan" \/ ~BelowHundred(num_value)
    THEN IF int_has_is_integer THEN PyStr(<<"1", "0", "0", "%">>)
         ELSE Raised("AttributeError")
    ELSE IF is_integer(num_value)
         THEN PyStr(FormatInt(num_value.m, 1) \o <<"%">>)
         ELSE PyStr(replace(FloatRepr(num_value), ".", <<point>>) \o <<"%">>)

standardize_conclusao(value) ==
    IF IsNullInput(value) THEN PyStr(<<>>)
    ELSE LET val_str == replace(strip(str(value)), "%", <<>>)
             comma == "," \in Range(val_str)
             num_value == IF comma THEN float(replace(val_str, ",", <<".">>))
                          ELSE float(val_str)
         IN  IF num_value = ValueError THEN PyStr(<<>>)
             ELSE FormatConclusao(num_value, IF comma THEN "," ELSE ".")

standardize_prioridade(value) ==
    IF IsNullInput(value) THEN PyStr(<<>>)
    ELSE PyStr(lower(strip(str(value))))

\* remove_accents: NFD splits an accented letter into the letter and its
\* combining accent, and the combining characters are dropped
RemoveAccentChar(c) ==
    IF c = "i_acute" THEN <<"i">>
    ELSE IF c = "I_ACUTE" THEN <<"I">>
    ELSE IF c = "a_tilde" THEN <<"a">>
    ELSE IF c = "A_TILDE" THEN <<"A">>
    ELSE IF c = "acute" THEN <<>>
    ELSE <<c>>

RECURSIVE remove_accents(_)
remove_accents(text) ==
    IF text = <<>> THEN <<>>
    ELSE RemoveAccentChar(Head(text)) \o remove_accents(Tail(text))

\* the dictionary status_mapping as its (key, value) pairs
status_mapping ==
    {<<<<"c", "r", "i", "t", "i", "c", "o">>,
       <<"c", "r", "i", "t", "i", "c", "o">>>>,
     <<<<"c", "r", "i", "t", "i", "c", "a", "l">>,
       <<"c", "r", "i", "t", "i", "c", "o">>>>,
     <<<<"c", "r", "i", "t", "i", "q", "u", "e">>,
       <<"c", "r", "i", "t", "i", "c", "o">>>>,
     <<<<"a", "t", "r", "a", "s", "a", "d", "o">>,
       <<"a", "t", "r", "a", "s", "a", "d", "o">>>>,
     <<<<"d", "e", "l", "a", "y", "e", "d">>,
       <<"a", "t", "r", "a", "s", "a", "d", "o">>>>,
     <<<<"a", "t", "r", "a", "s", "a", "d", "o", " ">>,
       <<"a", "t", "r", "a", "s", "a", "d", "o">>>>,
     <<<<"e", "m", " ", "d", "i", "a">>,
       <<"e", "m", " ", "d", "i", "a">>>>,
     <<<<"o", "n", " ", "s", "c", "h", "e", "d", "u", "l", "e">>,
       <<"e", "m", " ", "d", "i", "a">>>>,
     <<<<"o", "n", " ", "t", "i", "m", "e">>,
       <<"e", "m", " ", "d", "i", "a">>>>,
     <<<<"p", "a", "u", "s", "a", "d", "o">>,
       <<"p", "a", "u", "s", "a", "d", "o">>>>,
     <<<<"o", "n", " ", "h", "o", "l", "d">>,
       <<"p", "a", "u", "s", "a", "d", "o">>>>,
     <<<<"e", "m", " ", "e", "s", "p", "e", "r", "a">>,
       <<"p", "a", "u", "s", "a", "d", "o">>>>,
     <<<<"a", "g", "u", "a", "r", "d", "a", "n", "d", "o">>,
       <<"p", "a", "u", "s", "a", "d", "o">>>>,
     <<<<"w", "a", "i", "t", "i", "n", "g">>,
       <<"p", "a", "u", "s", "a", "d", "o">>>>,
     <<<<"p", "e", "n", "d", "i", "n", "g">>,
       <<"p", "a", "u", "s", "a", "d", "o">>>>,
     <<<<"s", "u", "s", "p", "e", "n", "d", "e", "d">>,
       <<"p", "a", "u", "s", "a", "d", "o">>>>,
     <<<<"s", "u", "s", "p", "e", "n", "s", "o">>,
       <<"p", "a", "u", "s", "a", "d", "o">>>>,
     <<<<"h", "o", "l", "d">>,
       <<"p", "a", "u", "s", "a", "d", "o">>>>,
     <<<<"p", "a", "u", "s", "e", "d">>,
       <<"p", "a", "u", "s", "a", "d", "o">>>>}

StatusKeys == {kv[1] : kv \in status_mapping}

StatusOf(k) == (CHOOSE kv \in status_mapping : kv[1] = k)[2]

\* standardize_status with unmapped input dropped instead of kept
standardize_status_drops_unmapped(value) ==
    IF IsNullInput(value) THEN PyStr(<<>>)
    ELSE LET status_str == remove_accents(lower(strip(str(value))))
         IN  IF status_str \in StatusKeys THEN PyStr(StatusOf(status_str))
             ELSE PyStr(<<>>)

standardize_status(value) ==
    IF IsNullInput(value) THEN PyStr(<<>>)
    ELSE LET status_str == remove_accents(lower(strip(str(value))))
         IN  IF status_str \in StatusKeys THEN PyStr(StatusOf(status_str))
             ELSE PyStr(status_str)

\* the dictionary typo_corrections in its iteration order
typo_corrections ==
    <<<<"O", "0">>, <<"I", "1">>, <<"l", "1">>, <<"S", "5">>, <<"G", "6">>,
      <<"B", "8">>>>

\* lines 274-277: the loop over typo_corrections; the entry for the letter O
\* is skipped when the o/O replacement of lines 266-271 has run
RECURSIVE ApplyTypoCorrections(_, _, _)
ApplyTypoCorrections(corrected, entries, o_correction_made) ==
    IF entries = <<>> THEN corrected
    ELSE LET typo == Head(entries)[1]
             correction == Head(entries)[2]
         IN  ApplyTypoCorrections(
                 IF typo = "O" /\ o_correction_made THEN corrected
                 ELSE replace(corrected, typo, <<correction>>),
                 Tail(entries), o_correction_made)

\* re.sub(r'[R$\s\(\)estim]', '', s)
RemoveCurrencySymbols(s) ==
    SelectSeq(s, LAMBDA c : c \notin {"R", "$", "(", ")", "e", "s", "t", "i",
                                      "m"} \cup SpaceChars)

\* the comma taken as the decimal separator wherever it occurs
DecimalPoint_comma_always(cleaned) ==
    IF "," \in Range(cleaned)
    THEN replace(replace(cleaned, ".", <<>>), ",", <<".">>)
    ELSE cleaned

\* lines 288-304: which of ',' and '.' is the decimal separator
DecimalPoint(cleaned) ==
    IF "," \in Range(cleaned) /\ "." \in Range(cleaned)
    THEN IF rfind(cleaned, ",") > rfind(cleaned, ".")
         THEN replace(replace(cleaned, ".", <<>>), ",", <<".">>)
         ELSE replace(cleaned, ",", <<>>)
    ELSE IF "," \in Range(cleaned)
         THEN replace(replace(cleaned, ".", <<>>), ",", <<".">>)
         ELSE cleaned

standardize_currency(currency_string) ==
    IF IsNullInput(currency_string) THEN PyStr(<<>>)
    ELSE LET currency_str == strip(str(currency_string))
             o_correction_made == "o" \in Range(lower(currency_str))
             corrected0 == IF o_correction_made
                           THEN replace(replace(currency_str, "o", <<"0">>),
                                        "O", <<"0">>)
                           ELSE currency_str
             corrected == ApplyTypoCorrections(corrected0, typo_corrections,
                                               o_correction_made)
             cleaned == DecimalPoint(RemoveCurrencySymbols(corrected))
             number == float(cleaned)
         IN  IF number = ValueError THEN PyStr(<<>>) ELSE number

\* str.strip('"\''): drop leading and trailing quotes
RECURSIVE StripQuotes(_)
StripQuotes(s) ==
    IF s # <<>> /\ Head(s) \in {"\"", "'"} THEN StripQuotes(Tail(s))
    ELSE IF s # <<>> /\ s[Len(s)] \in {"\"", "'"}
         THEN StripQuotes(SubSeq(s, 1, Len(s) - 1))
         ELSE s

\* hours + minutes / 60 on floats.  The quotient is the exact decimal when 3
\* divides the minutes' digits (the clock inputs of the model are such);
\* nan makes the sum nan.
HoursPlusMinutes(hours, minutes) ==
    IF hours.t = "nan" \/ minutes.t = "nan" THEN PyNan
    ELSE LET qm == (minutes.m * 50) \div 3
             qe == minutes.e + 3
             e == IF hours.e > qe THEN hours.e ELSE qe
         IN  PyFloat(hours.m * Pow10(e - hours.e) + qm * Pow10(e - qe), e)

\* lines 328-337: the H:MM branch; <<>> when it falls through
ClockHours(time_str) ==
    LET parts == Split(time_str, ":")
    IN  IF ":" \in Range(time_str) /\ Len(parts) = 2
           /\ float(parts[1]) # ValueError /\ float(parts[2]) # ValueError
        THEN <<HoursPlusMinutes(float(parts[1]), float(parts[2]))>>
        ELSE <<>>

convert_to_hours(time_string) ==
    IF isna(time_string) \/ time_string = PyStr(<<>>) THEN PyNone
    ELSE LET time_str == StripQuotes(strip(str(time_string)))
             decimal_hours == float(replace(time_str, ",", <<".">>))
         IN  IF ClockHours(time_str) # <<>> THEN ClockHours(time_str)[1]
             ELSE IF decimal_hours = ValueError THEN PyNone
             ELSE decimal_hours

Sim == <<"S", "i", "m">>

Nao == <<"N", "a_tilde", "o">>

Hibrido == <<"H", "i_acute", "b", "r", "i", "d", "o">>

standardize_approval(value) ==
    IF IsNullInput(value) THEN PyStr(<<>>)
    ELSE LET value_str == strip(str(value))
         IN  IF value_str = Sim THEN PyStr(Sim)
             ELSE IF value_str = Nao THEN PyStr(Nao)
             ELSE IF lower(value_str) = lower(Sim) THEN PyStr(Sim)
             ELSE IF lower(value_str) \in {lower(Nao), <<"n", "a", "o">>}
                  THEN PyStr(Nao)
             ELSE IF lower(value_str) = <<"s">> THEN PyStr(Sim)
             ELSE IF lower(value_str) = <<"n">> THEN PyStr(Nao)
             ELSE PyStr(value_str)

standardize_remote(value) ==
    IF IsNullInput(value) THEN PyStr(<<>>)
    ELSE LET value_str == strip(str(value))
         IN  IF value_str = Hibrido THEN PyStr(Hibrido)
             ELSE IF value_str = Sim THEN PyStr(Sim)
             ELSE IF value_str = Nao THEN PyStr(Nao)
             ELSE IF lower(value_str) = lower(Sim) THEN PyStr(Sim)
             ELSE IF lower(value_str) \in {lower(Nao), <<"n", "a", "o">>}
                  THEN PyStr(Nao)
             ELSE IF lower(value_str) = lower(Hibrido) THEN PyStr(Hibrido)
             ELSE PyStr(value_str)

----------------------------------------------------------------------------
(* Direct calls of the two key functions on bounded inputs *)

\* characters the identifiers are drawn from
IdChars == {"p", " "}

\* characters the display names are drawn from: a letter in both cases,
\* two kinds of whitespace, a punctuation mark
NameChars == {"a", "A", " ", "\t", "-"}

IdArgs == {NaN} \cup {Val(s) : s \in SeqsUpTo(IdChars, MaxIdLen)}

NameArgs == {NaN} \cup {Val(s) : s \in SeqsUpTo(NameChars, MaxNameLen)}

\* the pipeline is not running while the functions are called directly
PipeOff ==
    /\ pc = "off"
    /\ projetos_df = <<>> /\ horas_df = <<>> /\ custos_df = <<>>
    /\ base_df = <<>> /\ merged = <<>> /\ df = <<>>
    /\ kpis = NaN /\ area_data = <<>> /\ cost_comparison = <<>>

\* no normalizer is called directly
NormOff == norm_fn = "none" /\ norm_arg = NaN /\ norm_ret = <<>>

\* run_all_cleaning is not running
CleanOff ==
    /\ clean_pc = "off" /\ raw_files = <<>> /\ clean_files = <<>>
    /\ quality_report = <<>> /\ success = NaN

\* nothing the joiner or the KPI engine does depends on the platform
PlatformUnobserved == int_has_is_integer = FALSE /\ strftime_pads_year = FALSE

InitKey ==
    /\ PipeOff
    /\ NormOff /\ CleanOff /\ PlatformUnobserved
    /\ arg_project_id \in IdArgs
    /\ arg_projeto \in NameArgs
    /\ ret_key = NaN
    /\ ret_name = NaN

CallMatchProjectKey ==
    /\ pc = "off"
    /\ IsNa(ret_key)
    /\ ret_key' = Val(match_project_key(arg_project_id, arg_projeto))
    /\ UNCHANGED <<pipeVars, arg_project_id, arg_projeto, ret_name, normVars,
                   platformVars, cleanVars>>

CallStandardizeProjectName ==
    /\ pc = "off"
    /\ IsNa(ret_name)
    /\ ret_name' = Val(standardize_project_name(arg_projeto))
    /\ UNCHANGED <<pipeVars, arg_project_id, arg_projeto, ret_key, normVars,
                   platformVars, cleanVars>>

NextKey == CallMatchProjectKey \/ CallStandardizeProjectName

SpecKey == InitKey /\ [][NextKey]_vars

----------------------------------------------------------------------------
(* The batch: join (generate_final_output), then the dashboard's main() *)

P1 == <<"p", "1">>

P2 == <<"p", "2">>

\* the attributes of a project row: complete, with a negative planned cost
\* and no completion, and with every attribute missing but the completion
AttrsFull ==
    [status |-> Val("em dia"), area |-> Val("ti"), conclusao |-> Val(50),
     custo_previsto |-> Val(100)]

AttrsNegative ==
    [status |-> Val("atrasado"), area |-> Val("rh"), conclusao |-> NaN,
     custo_previsto |-> Val(-300)]

AttrsMissing ==
    [status |-> NaN, area |-> NaN, conclusao |-> Val(100),
     custo_previsto |-> NaN]

ProjetoWith(id, name, a) ==
    [project_id |-> id, projeto |-> name, status |-> a.status, area |-> a.area,
     conclusao |-> a.conclusao, custo_previsto |-> a.custo_previsto]

\* rows of Projetos_clean.csv: project p1 with any attributes (so that it
\* can occur twice with different ones), project p2, a row with neither id
\* nor name
ProjetoRows ==
    {ProjetoWith(Val(P1), Val(<<"A", "a">>), a) :
        a \in {AttrsFull, AttrsNegative, AttrsMissing}}
    \cup {ProjetoWith(Val(P2), Val(<<"a">>), AttrsNegative),
          ProjetoWith(NaN, NaN, AttrsFull)}

\* rows of Horas_clean.csv: by id, by a display name only (it normalizes to
\* the key of project p2), with neither id nor name
HorasRows ==
    {[project_id |-> Val(P1), projeto |-> NaN, horas |-> Val(2)],
     [project_id |-> NaN, projeto |-> Val(<<"P", "-", "2">>), horas |-> Val(3)],
     [project_id |-> NaN, projeto |-> NaN, horas |-> NaN]}

\* rows of Custos_clean.csv: by id, with neither id nor name
CustoRows ==
    {[project_id |-> Val(P1), projeto |-> NaN, valor |-> Val(50)],
     [project_id |-> Val(P2), projeto |-> NaN, valor |-> Val(200)],
     [project_id |-> NaN, projeto |-> NaN, valor |-> NaN]}

KeyOff ==
    /\ arg_project_id = NaN /\ arg_projeto = NaN
    /\ ret_key = NaN /\ ret_name = NaN

\* The three cleaned files as prepare_dataframes reads them.  Each has at
\* least one row: on an empty frame DataFrame.apply(..., axis=1) returns a
\* frame, not a column, and the match_key assignment does not go through.
Init ==
    /\ KeyOff
    /\ NormOff /\ CleanOff /\ PlatformUnobserved
    /\ pc = "cleaned"
    /\ projetos_df \in NonEmptySeqsUpTo(ProjetoRows, MaxRows - 2)
    /\ horas_df \in NonEmptySeqsUpTo(HorasRows, MaxRows - 1 - Len(projetos_df))
    /\ custos_df \in NonEmptySeqsUpTo(CustoRows,
                                      MaxRows - Len(projetos_df) - Len(horas_df))
    /\ base_df = <<>> /\ merged = <<>> /\ df = <<>>
    /\ kpis = NaN /\ area_data = <<>> /\ cost_comparison = <<>>

\* generate_final_output(): full_outer_join_data() (prepare_dataframes, the
\* source ids, the key universe, the three left joins), add_match_flags()
\* and the write of the joined file
GenerateFinalOutput ==
    /\ pc = "cleaned"
    /\ LET p == ProjetosPrepared(projetos_df)
           h == HorasPrepared(horas_df)
           c == CustosPrepared(custos_df)
       IN  /\ projetos_df' = p
           /\ horas_df' = h
           /\ custos_df' = c
           /\ \E base \in ListsOf(all_keys(p, h, c)) :
                /\ base_df' = base
                /\ merged' = add_match_flags(MergeAll(base, p, h, c))
    /\ pc' = "joined"
    /\ UNCHANGED <<df, kpis, area_data, cost_comparison, keyVars, normVars,
                   platformVars, cleanVars>>

\* main() of the dashboard: df = load_data(), kpis = calculate_kpis(df),
\* area_data = get_area_analysis(df),
\* cost_comparison = prepare_cost_comparison_data(df)
DashboardMain ==
    /\ pc = "joined"
    /\ LET d == load_and_clean_data(merged)
       IN  /\ df' = d
           /\ kpis' = Val(calculate_kpis(d))
           /\ area_data' = get_area_analysis(d)
           /\ cost_comparison' = prepare_cost_comparison_data(d)
    /\ pc' = "done"
    /\ UNCHANGED <<projetos_df, horas_df, custos_df, base_df, merged, keyVars,
                   normVars, platformVars, cleanVars>>

Next ==
    \/ GenerateFinalOutput
    \/ DashboardMain

Spec == Init /\ [][Next]_vars

----------------------------------------------------------------------------
(* Direct calls of one field normalizer on bounded inputs, once and then   *)
(* again on its own result                                                 *)

\* str.upper() on one character
UpperChar(c) ==
    IF c \in Range(LowerLetters)
    THEN UpperLetters[CHOOSE i \in 1..Len(LowerLetters) : LowerLetters[i] = c]
    ELSE c

\* str.upper()
upper(s) == [i \in 1..Len(s) |-> UpperChar(s[i])]

\* str.capitalize() of a lowercase word
capitalize(s) == [i \in 1..Len(s) |-> IF i = 1 THEN UpperChar(s[i]) ELSE s[i]]

\* a word as written, in capitals and with a capital initial
Spellings(words) ==
    words \cup {upper(w) : w \in words} \cup {capitalize(w) : w \in words}

\* runs of blanks of length 0..MaxPad
Pads == SeqsUpTo({" "}, MaxPad)

\* the strings of S with blanks around them
Padded(S) == {l \o s \o r : l \in Pads, r \in Pads, s \in S}

\* free-form text
JunkChars == {"x", "1", " ", "%"}

Junk == SeqsUpTo(JunkChars, MaxJunkLen)

StrArgs(S) == {PyStr(s) : s \in S}

\* missing values: None, nan, the empty string, a marker in some spelling
\* with or without blanks around it
NullArgs ==
    {PyNone, PyNan} \cup StrArgs({<<>>} \cup Padded(Spellings(NullMarkers)))

\* dates: three groups and two separators, and some texts
DateArgs ==
    LET FirstGroups ==
            {<<"1">>, <<"2", "6">>, <<"2", "9">>, <<"3", "1">>,
             <<"2", "0", "2", "4">>, <<"2", "0", "2", "3">>,
             <<"0", "9", "9", "9">>}
        MiddleGroups ==
            {<<"0", "1">>, <<"2">>, <<"0", "2">>, <<"1", "3">>, <<"2", "5">>,
             <<"2", "9">>}
        LastGroups ==
            {<<"0", "1">>, <<"0", "2">>, <<"2", "6">>, <<"4", "9">>,
             <<"5", "0">>, <<"6", "8">>, <<"6", "9">>,
             <<"2", "0", "2", "4">>, <<"2", "0", "2", "3">>}
        SeparatorPairs ==
            {<<"/", "/">>, <<".", ".">>, <<"-", "-">>, <<"/", "-">>}
        Strings ==
            {a \o <<p[1]>> \o b \o <<p[2]>> \o c :
                a \in FirstGroups, b \in MiddleGroups, c \in LastGroups,
                p \in SeparatorPairs}
        Samples ==
            {<<"2", "6", "/", "0", "1", "/", "2", "6">>,
             <<"2", "0", "2", "6", "-", "2", "5", "-", "0", "1">>,
             <<"n", "o", "t", "-", "a", "-", "d", "a", "t", "e">>,
             <<"+", "0", "2", "6", "-", "2", "5", "-", "0", "1">>,
             <<"2", "0", "2", "4", "-", "0", "1", "-", " ", "5">>}
    IN  NullArgs \cup StrArgs(Strings \cup Padded(Samples) \cup Junk)

\* percentages: sign, whole part, decimals after a comma or a point, symbol
ConclusaoArgs ==
    LET Strings ==
            {s \o w \o d \o p :
                s \in {<<>>, <<"-">>},
                w \in
                    {<<"0">>, <<"5">>, <<"4", "2">>, <<"9", "9">>,
                     <<"1", "0", "0">>, <<"1", "1", "0">>},
                d \in
                    {<<>>, <<",", "0">>, <<",", "5">>, <<".", "0">>,
                     <<".", "5">>, <<",", "7", "3">>, <<".", "9", "1">>},
                p \in {<<>>, <<"%">>}}
        Samples ==
            {<<"n", "a", "n">>, <<"1", ".", "0", "0", "0", ",", "5">>,
             <<"1", ",", "2", ",", "3">>, <<"4", " ", "2", "%">>,
             <<"%", "4", "2">>}
    IN  NullArgs \cup StrArgs(Strings \cup Padded(Samples) \cup Junk)

\* categories: the keys of the synonym table, an accented spelling, words
\* the table does not have, a word with a blank before a combining accent
StatusArgs ==
    LET Words ==
            StatusKeys \cup
            {<<"c", "r", "i_acute", "t", "i", "c", "o">>,
             <<"n", "o", "v", "o">>, <<"x", "p", "t", "o">>,
             <<"a", " ", "acute">>, <<"e", "m", " ", " ", "d", "i", "a">>}
    IN  NullArgs \cup StrArgs(Padded(Spellings(Words)) \cup Junk)

PrioridadeArgs ==
    LET Words ==
            {<<"a", "l", "t", "a">>, <<"m", "é", "d", "i", "a">>,
             <<"b", "a", "i", "x", "a">>, <<"p", "1">>}
    IN  NullArgs \cup StrArgs(Padded(Spellings(Words)) \cup Junk)

\* amounts: currency symbol, sign, digits and separators (one kind, both
\* kinds, a separator repeated) with or without a mistyped letter, words
\* without any digit, an annotation
CurrencyArgs ==
    LET Bodies ==
            {<<"1", "6", ".", "5", "9", "1", ",", "0", "6">>,
             <<"2", "4", ".", "8", "1", "1", ",", "0", "4">>,
             <<"5", "0", "0", "0", ".", "0", "0">>,
             <<"5", ".", "0", "0", "0", ",", "0", "0">>,
             <<"2", "5", ".", "0", "0", "0", ",", "0", "O">>,
             <<"2", "5", ".", "0", "0", "0", ",", "0", "o">>,
             <<"1", ",", "0", "0", "0", ".", "5", "0">>,
             <<"1", ".", "0", "0", "0">>, <<"1", ",", "5">>,
             <<"1", ".", "5">>, <<"0", ",", "5">>, <<"5">>, <<"1", "O">>,
             <<"l", "0">>, <<"2", "S">>, <<"7", "B">>, <<"1", "G">>, <<"I">>,
             <<"S", "O", "S">>, <<"B", "I", "G">>, <<"l", "o", "l">>,
             <<"B", "O", "B">>, <<"a", "b", "c">>, <<"O">>,
             <<"1", ".", "0", "0", "0", ".", "0", "0", "0">>,
             <<"1", ",", "0", "0", "0", ",", "0", "0", "0">>,
             <<"1", ",", "5", ",", "0">>, <<"1", ".", "5", ".", "0">>,
             <<"2", "5", ",", "0", "0", "0", ".", "0", "0">>,
             <<"1", ".", "2", ",", "5">>, <<"1", ",", "5", ".", "0", ".", "2">>,
             <<"1", ".", "0", "0", "0", ".", "0", "0", "0", ",", "5">>,
             <<"1", ",", "0", "0", "0", ",", "0", "0", "0", ".", "5">>}
        Strings ==
            {c \o s \o b \o a :
                c \in {<<>>, <<"R", "$">>, <<"R", "$", " ">>},
                s \in {<<>>, <<"-">>},
                b \in Bodies,
                a \in {<<>>, <<" ", "(", "e", "s", "t", ")">>}}
    IN  NullArgs \cup StrArgs(Padded(Strings) \cup Junk)

\* durations: clock readings whose minutes are a multiple of 3, decimal
\* hours with a comma or a point, quoted, not a duration
HoursArgs ==
    LET ClockStrings ==
            {h \o <<":">> \o m :
                h \in
                    {<<>>, <<"0">>, <<"3">>, <<"-", "1">>, <<"1", ".", "5">>,
                     <<"x">>, <<"n", "a", "n">>},
                m \in
                    {<<>>, <<"0", "0">>, <<"1", "5">>, <<"3", "0">>, <<"x">>}}
        Samples ==
            {<<"3", ":", "3", "0", ":", "0", "0">>, <<"2", ".", "0", "8">>,
             <<"3", ",", "6">>, <<"2", ",", "0", "8">>, <<"7">>,
             <<"n", "a", "n">>, <<"\"", "3", ":", "3", "0", "\"">>,
             <<"'", "2", ",", "5", "'">>, <<"\"">>, <<"n", "u", "l", "l">>,
             <<"3", "h">>}
    IN  NullArgs \cup StrArgs(Padded(ClockStrings \cup Samples) \cup Junk)

ApprovalArgs ==
    LET Words ==
            {<<"s", "i", "m">>, <<"n", "a_tilde", "o">>, <<"n", "a", "o">>,
             <<"s">>, <<"n">>, <<"t", "a", "l", "v", "e", "z">>, <<"o", "k">>}
    IN  NullArgs \cup StrArgs(Padded(Spellings(Words)) \cup Junk)

RemoteArgs ==
    LET Words ==
            {<<"s", "i", "m">>, <<"n", "a_tilde", "o">>, <<"n", "a", "o">>,
             <<"h", "i_acute", "b", "r", "i", "d", "o">>,
             <<"h", "i", "b", "r", "i", "d", "o">>, <<"s">>,
             <<"r", "e", "m", "o", "t", "o">>}
    IN  NullArgs \cup StrArgs(Padded(Spellings(Words)) \cup Junk)

Normalizers ==
    {"standardize_date", "standardize_conclusao", "standardize_prioridade",
     "standardize_status", "standardize_currency", "convert_to_hours",
     "standardize_approval", "standardize_remote"}

ArgsOf(fn) ==
    CASE fn = "standardize_date" -> DateArgs
      [] fn = "standardize_conclusao" -> ConclusaoArgs
      [] fn = "standardize_prioridade" -> PrioridadeArgs
      [] fn = "standardize_status" -> StatusArgs
      [] fn = "standardize_currency" -> CurrencyArgs
      [] fn = "convert_to_hours" -> HoursArgs
      [] fn = "standardize_approval" -> ApprovalArgs
      [] fn = "standardize_remote" -> RemoteArgs

\* The interpreter may or may not have int.is_integer, and the C library
\* may or may not zero-fill the year: the program runs on either.
InitNorm ==
    /\ PipeOff /\ KeyOff /\ CleanOff
    /\ int_has_is_integer \in BOOLEAN
    /\ strftime_pads_year \in BOOLEAN
    /\ norm_fn \in Normalizers
    /\ norm_arg \in ArgsOf(norm_fn)
    /\ norm_ret = <<>>

\* the normalizer is called with the input, and then with what it returned
\* (nothing is returned when it raised)
CanCall(fn) ==
    /\ clean_pc = "off"
    /\ norm_fn = fn
    /\ Len(norm_ret) < 2
    /\ norm_ret # <<>> => norm_ret[1].t # "raise"

NextArg == IF norm_ret = <<>> THEN norm_arg ELSE norm_ret[1]

NormUnchanged ==
    UNCHANGED <<pipeVars, keyVars, norm_fn, norm_arg, platformVars, cleanVars>>

CallStandardizeDate ==
    /\ CanCall("standardize_date")
    /\ norm_ret' = Append(norm_ret, standardize_date(NextArg))
    /\ NormUnchanged

CallStandardizeConclusao ==
    /\ CanCall("standardize_conclusao")
    /\ norm_ret' = Append(norm_ret, standardize_conclusao(NextArg))
    /\ NormUnchanged

CallStandardizePrioridade ==
    /\ CanCall("standardize_prioridade")
    /\ norm_ret' = Append(norm_ret, standardize_prioridade(NextArg))
    /\ NormUnchanged

CallStandardizeStatus ==
    /\ CanCall("standardize_status")
    /\ norm_ret' = Append(norm_ret, standardize_status(NextArg))
    /\ NormUnchanged

CallStandardizeCurrency ==
    /\ CanCall("standardize_currency")
    /\ norm_ret' = Append(norm_ret, standardize_currency(NextArg))
    /\ NormUnchanged

CallConvertToHours ==
    /\ CanCall("convert_to_hours")
    /\ norm_ret' = Append(norm_ret, convert_to_hours(NextArg))
    /\ NormUnchanged

CallStandardizeApproval ==
    /\ CanCall("standardize_approval")
    /\ norm_ret' = Append(norm_ret, standardize_approval(NextArg))
    /\ NormUnchanged

CallStandardizeRemote ==
    /\ CanCall("standardize_remote")
    /\ norm_ret' = Append(norm_ret, standardize_remote(NextArg))
    /\ NormUnchanged

NextNorm ==
    \/ CallStandardizeDate
    \/ CallStandardizeConclusao
    \/ CallStandardizePrioridade
    \/ CallStandardizeStatus
    \/ CallStandardizeCurrency
    \/ CallConvertToHours
    \/ CallStandardizeApproval
    \/ CallStandardizeRemote

SpecNorm == InitNorm /\ [][NextNorm]_vars

----------------------------------------------------------------------------
(* data_cleaning_script.py: the record cleaner, run_all_cleaning *)
(*                                                                         *)
(*  - A raw file is Missing or a table; a table is a sequence of rows, a   *)
(*    row a record of the columns that are cleaned (the others are copied  *)
(*    as they are and left out).  A raw cell is a str or nan, as read_csv  *)
(*    reads a text column.                                                 *)

Missing == [t |-> "missing"]

Table(rows) == [t |-> "table", rows |-> rows]

NotWritten == [t |-> "not written"]

Sources == {"projetos", "custos", "horas"}

\* load_raw_data(filename): None when read_csv raises
load_raw_data(source) ==
    IF raw_files[source] = Missing THEN PyNone ELSE raw_files[source]

\* a call of a normalizer on some cell of the row raised
RowRaised(row) == \E col \in DOMAIN row : row[col].t = "raise"

\* df[col].notna().sum()
notna_sum(rows, col) == Cardinality({i \in 1..Len(rows) : ~isna(rows[i][col])})

\* lines 408-413
CleanProjetoRow(r) ==
    [prioridade |-> standardize_prioridade(r.prioridade),
     status |-> standardize_status(r.status),
     inicio |-> standardize_date(r.inicio),
     prazo |-> standardize_date(r.prazo),
     conclusao |-> standardize_conclusao(r.conclusao),
     custo_previsto |-> standardize_currency(r.custo_previsto)]

\* lines 450-453; astype(str).str.lower() makes text of a missing cell
CleanCustoRow(r) ==
    [data |-> standardize_date(r.data),
     valor |-> standardize_currency(r.valor),
     centro_custo |-> PyStr(lower(str(r.centro_custo))),
     aprovado |-> standardize_approval(r.aprovado)]

\* lines 488-490
CleanHoraRow(r) ==
    [data |-> standardize_date(r.data),
     horas |-> convert_to_hours(r.horas),
     remoto |-> standardize_remote(r.remoto)]

\* lines 420-435
ProjetosReport(rows) ==
    [file |-> "Projetos_raw.csv",
     total_records |-> Len(rows),
     dates_standardized |-> notna_sum(rows, "inicio") + notna_sum(rows, "prazo"),
     conclusao_standardized |-> notna_sum(rows, "conclusao"),
     currency_cleaned |-> notna_sum(rows, "custo_previsto"),
     priority_lowercase |-> notna_sum(rows, "prioridade"),
     status_lowercase |-> notna_sum(rows, "status")]

\* lines 460-473
CustosReport(rows) ==
    [file |-> "Custos_raw.csv",
     total_records |-> Len(rows),
     dates_standardized |-> notna_sum(rows, "data"),
     currency_cleaned |-> notna_sum(rows, "valor"),
     centro_custo_lowercase |-> notna_sum(rows, "centro_custo"),
     aprovado_standardized |-> notna_sum(rows, "aprovado")]

\* lines 497-508
HorasReport(rows) ==
    [file |-> "Horas_raw.csv",
     total_records |-> Len(rows),
     dates_standardized |-> notna_sum(rows, "data"),
     time_converted |-> notna_sum(rows, "horas"),
     remote_standardized |-> notna_sum(rows, "remoto")]

\* The three steps have one shape (lines 401-438, 443-476, 481-511): load,
\* return False when the file did not load; clean the columns (a normalizer
\* that raises ends the run, nothing is written); write the cleaned file;
\* count; append the report entry, whose success_rate divides
\* original_count by original_count and raises ZeroDivisionError for a
\* table without rows; return True.  before is the value of success when the
\* step is called, the step leaves success = before & returned.
CleanStep(source, cleaned, report, before, next_pc) ==
    IF load_raw_data(source) = PyNone
    THEN /\ success' = Val(FALSE)
         /\ clean_pc' = next_pc
         /\ UNCHANGED <<clean_files, quality_report>>
    ELSE IF \E i \in 1..Len(cleaned) : RowRaised(cleaned[i])
    THEN /\ clean_pc' = "AttributeError"
         /\ success' = Val(before)
         /\ UNCHANGED <<clean_files, quality_report>>
    ELSE /\ clean_files' = [clean_files EXCEPT ![source] = Table(cleaned)]
         /\ IF cleaned = <<>>
            THEN /\ clean_pc' = "ZeroDivisionError"
                 /\ success' = Val(before)
                 /\ UNCHANGED quality_report
            ELSE /\ quality_report' = Append(quality_report, report)
                 /\ success' = Val(before)
                 /\ clean_pc' = next_pc

CleanedRowsOf(source) ==
    LET rows == raw_files[source].rows
    IN  IF source = "projetos"
        THEN [i \in 1..Len(rows) |-> CleanProjetoRow(rows[i])]
        ELSE IF source = "custos"
        THEN [i \in 1..Len(rows) |-> CleanCustoRow(rows[i])]
        ELSE [i \in 1..Len(rows) |-> CleanHoraRow(rows[i])]

CleanUnchanged == UNCHANGED <<pipeVars, keyVars, normVars, platformVars, raw_files>>

\* run_all_cleaning() up to and with line 602: success = True;
\* success &= self.clean_projetos_raw()
CleanProjetosRaw ==
    /\ clean_pc = "start"
    /\ CleanStep("projetos", CleanedRowsOf("projetos"),
                 ProjetosReport(CleanedRowsOf("projetos")), TRUE, "projetos")
    /\ CleanUnchanged

\* line 603: success &= self.clean_custos_raw()
CleanCustosRaw ==
    /\ clean_pc = "projetos"
    /\ CleanStep("custos", CleanedRowsOf("custos"),
                 CustosReport(CleanedRowsOf("custos")), Get(success), "custos")
    /\ CleanUnchanged

\* line 604: success &= self.clean_horas_raw()
CleanHorasRaw ==
    /\ clean_pc = "custos"
    /\ CleanStep("horas", CleanedRowsOf("horas"),
                 HorasReport(CleanedRowsOf("horas")), Get(success), "horas")
    /\ CleanUnchanged

\* lines 606-614: generate_quality_report() when every step succeeded, and
\* return success
ReturnSuccess ==
    /\ clean_pc = "horas"
    /\ clean_pc' = "returned"
    /\ clean_files' = IF success = Val(TRUE)
                      THEN [clean_files EXCEPT !.report = Table(quality_report)]
                      ELSE clean_files
    /\ UNCHANGED <<quality_report, success>>
    /\ CleanUnchanged

\* rows of the raw files: a row every column of which can be cleaned, a row
\* with missing and unparseable cells, a project that is complete
RawProjetoRows ==
    LET Good ==
            [prioridade |-> PyStr(<<"A", "l", "t", "a">>),
             status |-> PyStr(<<"D", "E", "L", "A", "Y", "E", "D">>),
             inicio |-> PyStr(<<"2", "6", "/", "0", "1", "/", "2", "6">>),
             prazo |-> PyStr(<<"2", "0", "2", "6", "-", "2", "5", "-", "0", "1">>),
             conclusao |-> PyStr(<<"4", "2", ",", "5", "%">>),
             custo_previsto |->
                 PyStr(<<"R", "$", " ", "5", ".", "0", "0", "0", ",", "0", "0">>)]
        Bad ==
            [prioridade |-> PyNan, status |-> PyStr(<<"n", "o", "v", "o">>),
             inicio |-> PyStr(<<"n", "o", "t", "-", "a", "-", "d", "a", "t", "e">>),
             prazo |-> PyNan,
             conclusao |-> PyStr(<<"x">>), custo_previsto |-> PyStr(<<"x">>)]
        Complete == [Good EXCEPT !.conclusao = PyStr(<<"1", "0", "0", "%">>)]
    IN  {Good, Bad, Complete}

RawCustoRows ==
    {[data |-> PyStr(<<"2", "6", "/", "0", "1", "/", "2", "6">>),
      valor |-> PyStr(<<"1", ".", "0", "0", "0", ",", "5", "0">>),
      centro_custo |-> PyStr(<<"T", "I">>), aprovado |-> PyStr(<<"s">>)],
     [data |-> PyNan, valor |-> PyStr(<<"x">>), centro_custo |-> PyNan,
      aprovado |-> PyNan]}

RawHoraRows ==
    {[data |-> PyStr(<<"2", "6", "/", "0", "1", "/", "2", "6">>),
      horas |-> PyStr(<<"3", ":", "3", "0">>), remoto |-> PyStr(<<"s", "i", "m">>)],
     [data |-> PyStr(<<"n", "o", "t", "-", "a", "-", "d", "a", "t", "e">>), horas |-> PyStr(<<"x">>),
      remoto |-> PyNan]}

\* a raw file: it cannot be read, or it has 0..MaxRawRows rows
RawFiles(rows) == {Missing} \cup {Table(t) : t \in SeqsUpTo(rows, MaxRawRows)}

InitClean ==
    /\ PipeOff /\ KeyOff /\ NormOff
    /\ int_has_is_integer \in BOOLEAN
    /\ strftime_pads_year \in BOOLEAN
    /\ clean_pc = "start"
    /\ raw_files \in [projetos : RawFiles(RawProjetoRows),
                      custos : RawFiles(RawCustoRows),
                      horas : RawFiles(RawHoraRows)]
    /\ clean_files = [projetos |-> NotWritten, custos |-> NotWritten,
                      horas |-> NotWritten, report |-> NotWritten]
    /\ quality_report = <<>>
    /\ success = NaN

NextClean ==
    \/ CleanProjetosRaw
    \/ CleanCustosRaw
    \/ CleanHorasRaw
    \/ ReturnSuccess

SpecClean == InitClean /\ [][NextClean]_vars

----------------------------------------------------------------------------
(* Claims on the key functions *)

\* the identifier is present and non-empty after trimming
IdUsable(c) == ~IsNa(c) /\ strip(Get(c)) # <<>>

\* C3 (as claimed): match_project_key returns the TRIMMED identifier when the
\* identifier is present and non-empty after trimming, otherwise the
\* normalized display name, and the empty string when neither is available.
C3_MatchKeyTrimmed ==
    ~IsNa(ret_key) =>
        Get(ret_key) =
            IF IdUsable(arg_project_id) THEN strip(Get(arg_project_id))
            ELSE IF ~IsNa(arg_projeto)
                 THEN standardize_project_name(arg_projeto)
                 ELSE <<>>

\* a name-based key as the claim describes it: lowercase, only word
\* characters and single spaces, no leading or trailing whitespace
WellFormedNameKey(k) ==
    /\ \A i \in 1..Len(k) : k[i] \notin Upper
    /\ \A i \in 1..Len(k) : k[i] \in WordChars \/ k[i] = " "
    /\ \A i \in 1..(Len(k) - 1) : ~(k[i] = " " /\ k[i + 1] = " ")
    /\ k # <<>> => (k[1] \notin SpaceChars /\ k[Len(k)] \notin SpaceChars)

\* C4 (as claimed): standardize_project_name returns a lowercase string of
\* word characters and single spaces with no leading or trailing whitespace.
C4_NameKeyWellFormed ==
    ~IsNa(ret_name) => WellFormedNameKey(Get(ret_name))

----------------------------------------------------------------------------
(* Claims on the join *)

\* the joined file exists
Joined == pc \in {"joined", "done"}

\* calculate_kpis has returned
HasKpis == pc = "done"

\* how many of the three presence flags of a joined row are true
FlagCount(r) ==
    Cardinality({f \in {"has_projeto_data", "has_horas_data", "has_custo_data"} : r[f]})

\* C1: after add_match_flags, a row is "full" exactly when all three presence
\* flags are true, "partial" exactly when exactly two are, and "unmatched"
\* exactly when at most one is.
C1_MatchQuality ==
    Joined =>
        \A i \in 1..Len(merged) :
            /\ merged[i].match_quality = "full" <=> FlagCount(merged[i]) = 3
            /\ merged[i].match_quality = "partial" <=> FlagCount(merged[i]) = 2
            /\ merged[i].match_quality = "unmatched" <=> FlagCount(merged[i]) <= 1

\* C1 witness: a joined table with a row fed by all three sources and a row
\* fed by a single source
C1_Witness ==
    /\ pc = "joined"
    /\ \E i \in 1..Len(merged) : FlagCount(merged[i]) = 3
    /\ \E i \in 1..Len(merged) : FlagCount(merged[i]) = 1

\* the MatchKeys of the rows of one cleaned table
SourceKeys(t) == {match_project_key(t[i].project_id, t[i].projeto) : i \in 1..Len(t)}

UnionOfSourceKeys ==
    SourceKeys(projetos_df) \cup SourceKeys(horas_df) \cup SourceKeys(custos_df)

\* C2: the match_key values of the joined table are exactly the union of the
\* MatchKeys of the three cleaned tables, and the base key set holds each of
\* them exactly once.
C2_JoinCompleteness ==
    Joined =>
        /\ {merged[i].match_key : i \in 1..Len(merged)} = UnionOfSourceKeys
        /\ Range(base_df) = UnionOfSourceKeys
        /\ \A i, j \in 1..Len(base_df) : base_df[i] = base_df[j] => i = j

\* C2 witness: a key only Custos has, a key only Projetos has, and a key
\* with several joined rows
C2_Witness ==
    /\ pc = "joined"
    /\ SourceKeys(custos_df) \ (SourceKeys(projetos_df) \cup SourceKeys(horas_df)) # {}
    /\ SourceKeys(projetos_df) \ (SourceKeys(horas_df) \cup SourceKeys(custos_df)) # {}
    /\ Len(merged) > Len(base_df)

----------------------------------------------------------------------------
(* Claims on the KPI engine *)

\* the sum of w(x) over the elements x of a finite set
RECURSIVE SumOver(_, _)
SumOver(w(_), S) ==
    IF S = {} THEN 0
    ELSE LET x == CHOOSE y \in S : TRUE
         IN  w(x) + SumOver(w, S \ {x})

\* the project identifiers of the loaded table
ProjectIds == {df[i].project_id : i \in 1..Len(df)} \ {NaN}

\* the cells column col has in the rows of project id
CellsOf(id, col) == {df[i][col] : i \in {j \in 1..Len(df) : df[j].project_id = id}}

\* the sum of the per-status counts returned by calculate_kpis
StatusCountTotal ==
    LET sc == Get(kpis).status_counts
    IN  SumOver(LAMBDA g : sc[g], DOMAIN sc)

\* C5 (as claimed): for every joined table, the values of status_counts sum
\* to total_projects.
C5_StatusSumEqualsTotal ==
    HasKpis => StatusCountTotal = Get(kpis).total_projects

\* every project of the loaded table has one status, and it is not missing
OneStatusPerProject ==
    \A id \in ProjectIds :
        Cardinality(CellsOf(id, "status")) = 1 /\ NaN \notin CellsOf(id, "status")

\* C5 (amended): when every project identifier has exactly one, non-missing
\* status, the values of status_counts sum to total_projects.
C5_StatusSumEqualsTotal_OneStatus ==
    (HasKpis /\ OneStatusPerProject) => StatusCountTotal = Get(kpis).total_projects

\* C5 witness: two projects with different statuses, one of them fanned out
\* over several joined rows
C5_Witness ==
    /\ pc = "done"
    /\ OneStatusPerProject
    /\ Get(kpis).total_projects = 2
    /\ Cardinality(DOMAIN Get(kpis).status_counts) = 2
    /\ Len(df) > 2

\* every project of the loaded table has exactly one area
OneAreaPerProject ==
    \A id \in ProjectIds :
        Cardinality(CellsOf(id, "area")) = 1 /\ NaN \notin CellsOf(id, "area")

\* C6: when each project has exactly one area, qtd_projetos summed over the
\* rows of get_area_analysis equals total_projects of calculate_kpis.
C6_AreaSumEqualsTotal ==
    (pc = "done" /\ OneAreaPerProject) =>
        SumSeq([i \in 1..Len(area_data) |-> area_data[i].qtd_projetos])
            = Get(kpis).total_projects

\* C6 witness: two projects in two areas, one of them fanned out
C6_Witness ==
    /\ pc = "done"
    /\ OneAreaPerProject
    /\ Get(kpis).total_projects = 2
    /\ Len(area_data) = 2
    /\ Len(df) > 2

\* the planned cost of the first row of Projetos that carries identifier id
FirstPlannedCost(id) ==
    LET i == CHOOSE k \in 1..Len(projetos_df) :
                /\ projetos_df[k].project_id = id
                /\ \A j \in 1..(k - 1) : projetos_df[j].project_id # id
    IN  IF IsNa(projetos_df[i].custo_previsto) THEN 0
        ELSE Get(projetos_df[i].custo_previsto)

\* the identifiers of the Projetos table
SourceProjectIds == {projetos_df[i].project_id : i \in 1..Len(projetos_df)} \ {NaN}

\* C7: planned_costs is the planned cost of each distinct project identifier
\* counted once, however many joined rows the project fans out to.
C7_PlannedCostOncePerProject ==
    HasKpis => Get(kpis).planned_costs = SumOver(FirstPlannedCost, SourceProjectIds)

\* C7 witness: two projects, one with a planned cost and several joined rows
C7_Witness ==
    /\ pc = "done"
    /\ Get(kpis).total_projects = 2
    /\ \E i, j \in 1..Len(df) :
        /\ i # j
        /\ df[i].project_id = df[j].project_id
        /\ df[i].projeto_source_id = df[j].projeto_source_id
        /\ df[i].custo_previsto_clean # 0

\* the cost entries (rows of Custos) that reached the loaded table
CostEntriesInTable == {df[i].custo_source_id : i \in 1..Len(df)} \ {NaN}

\* the value of cost entry c, a missing value counting as 0
CostEntryValue(c) ==
    LET r == custos_df[Get(c) + 1]
    IN  IF IsNa(r.valor) THEN 0 ELSE Get(r.valor)

\* C8 (as claimed): actual_costs is the sum of the values of the cost entries
\* of the projects in the table, each entry contributing its value once.
C8_ActualCostOncePerEntry ==
    HasKpis => Get(kpis).actual_costs = SumOver(CostEntryValue, CostEntriesInTable)

\* C9 (as claimed): cost_variance is (actual - planned) / planned * 100
\* whenever planned_costs is not zero, and 0 when it is zero.
C9_CostVariance ==
    HasKpis =>
        LET k == Get(kpis)
        IN  /\ k.cost_variance.den # 0
            /\ IF k.planned_costs # 0
               THEN RatEq(k.cost_variance,
                          Rat((k.actual_costs - k.planned_costs) * 100, k.planned_costs))
               ELSE k.cost_variance.num = 0

\* the rows of the loaded table that have a completion value
RowsWithCompletion == {i \in 1..Len(df) : ~IsNa(df[i].conclusao)}

\* C10: avg_completion is the mean of conclusao_clean over the rows that have
\* a value (conclusao "n%" being the fraction n/100), and is 0.0 when no row
\* has one, the empty table included.
C10_AvgCompletion ==
    HasKpis =>
        LET avg == Get(kpis).avg_completion
        IN  /\ avg.den # 0
            /\ IF RowsWithCompletion = {}
               THEN avg.num = 0
               ELSE avg.num * 100 * Cardinality(RowsWithCompletion)
                    = avg.den * SumOver(LAMBDA i : Get(df[i].conclusao),
                                        RowsWithCompletion)

\* C10 witness: rows with different completion values and a row with none
C10_Witness ==
    /\ pc = "done"
    /\ \E i, j \in RowsWithCompletion : df[i].conclusao # df[j].conclusao
    /\ RowsWithCompletion # 1..Len(df)

----------------------------------------------------------------------------
(* Claims on the field normalizers *)

\* the first call of normalizer fn has returned a value
Returned(fn) == norm_fn = fn /\ norm_ret # <<>> /\ norm_ret[1].t # "raise"

\* YYYY-MM-DD, and the day exists in the calendar
IsCanonicalDate(s) ==
    /\ Len(s) = 10
    /\ s[5] = "-" /\ s[8] = "-"
    /\ IsDigits(SubSeq(s, 1, 4))
    /\ IsDigits(SubSeq(s, 6, 7))
    /\ IsDigits(SubSeq(s, 9, 10))
    /\ LET y == DigitsToInt(SubSeq(s, 1, 4))
           m == DigitsToInt(SubSeq(s, 6, 7))
           d == DigitsToInt(SubSeq(s, 9, 10))
       IN  y >= 1 /\ m \in 1..12 /\ d \in 1..DaysInMonth(y, m)

\* the text has a character no accepted date format has
HasNonDateChar(s) ==
    \E i \in 1..Len(s) : s[i] \notin DigitChars \cup DateSeparators

\* C11 (as claimed): for every input, standardize_date returns the empty
\* string or a YYYY-MM-DD string that names a valid calendar date, and an
\* input that matches none of the accepted formats yields the empty string.
C11_DateOutputInvariant ==
    Returned("standardize_date") =>
        /\ norm_ret[1].t = "str"
        /\ norm_ret[1].s = <<>> \/ IsCanonicalDate(norm_ret[1].s)
        /\ (norm_arg.t = "str" /\ HasNonDateChar(strip(norm_arg.s)))
               => norm_ret[1].s = <<>>

\* the number a percentage text stands for, the comma read as the point
PercentValue(s) == float(replace(s, ",", <<".">>))

\* 0 <= x <= 100 for the result x of float()
InPercentRange(x) == x.t = "float" /\ x.m >= 0 /\ x.m <= 100 * Pow10(x.e)

\* C12 (as claimed): for every input, a non-empty result of
\* standardize_conclusao is a number of the closed range [0, 100] followed
\* by '%': values above 100 become 100% and no negative percentage is
\* emitted.
C12_PercentageClamp ==
    (Returned("standardize_conclusao") /\ norm_ret[1] # PyStr(<<>>)) =>
        /\ norm_ret[1].t = "str"
        /\ LET s == norm_ret[1].s
           IN  /\ s[Len(s)] = "%"
               /\ InPercentRange(PercentValue(SubSeq(s, 1, Len(s) - 1)))

\* digits, possibly a comma or a point and more digits, then '%', and the
\* number lies in [0, 100]
WellFormedPercent(s) ==
    /\ s # <<>> /\ s[Len(s)] = "%"
    /\ LET n == SubSeq(s, 1, Len(s) - 1)
           at == IF rfind(n, ",") > 0 THEN rfind(n, ",") ELSE rfind(n, ".")
       IN  /\ IF at = 0 THEN IsDigits(n)
              ELSE /\ IsDigits(SubSeq(n, 1, at - 1))
                   /\ IsDigits(SubSeq(n, at + 1, Len(n)))
           /\ InPercentRange(PercentValue(n))

\* C13 (as claimed): standardize_conclusao keeps the decimal separator of its
\* input (comma in, comma out; point in, point out) and returns an already
\* well-formed in-range percentage unchanged ("42,0%" yields "42,0%").
C13_PercentageTextForm ==
    (Returned("standardize_conclusao") /\ norm_arg.t = "str") =>
        /\ WellFormedPercent(norm_arg.s) => norm_ret[1] = norm_arg
        /\ norm_ret[1].t = "str"
        /\ "," \in Range(norm_arg.s) => "." \notin Range(norm_ret[1].s)
        /\ "," \notin Range(norm_arg.s) => "," \notin Range(norm_ret[1].s)

\* the four canonical values
CanonicalStatuses == {kv[2] : kv \in status_mapping}

\* the trimmed, lowercased, accent-stripped form of a text
CleanedForm(s) == remove_accents(lower(strip(s)))

\* what the claim says standardize_status returns for the text s
ClaimedStatus(s) ==
    IF CleanedForm(s) \in StatusKeys THEN StatusOf(CleanedForm(s))
    ELSE CleanedForm(s)

\* C14 (as claimed): for every non-null input, standardize_status returns
\* one of the four canonical values exactly when the trimmed, lowercased,
\* accent-stripped input is an entry of the synonym table, and every other
\* input is returned as its trimmed, lowercased, accent-stripped form, never
\* replaced by empty.
C14_StatusMapping ==
    (Returned("standardize_status") /\ norm_arg.t = "str") =>
        /\ norm_ret[1] = PyStr(ClaimedStatus(norm_arg.s))
        /\ norm_ret[1].s \in CanonicalStatuses
               <=> CleanedForm(norm_arg.s) \in StatusKeys

\* the input is text and not one of the spellings of a missing value, which
\* the normalizer tests for on the untrimmed lowercased text
NotAMarker == norm_arg.t = "str" /\ lower(norm_arg.s) \notin NullMarkers

\* C14 (amended): the same, for every input that is neither null nor one of
\* the spellings null, none, nan, n/a (in any case, untrimmed) of a missing
\* value; those are returned as the empty string.
C14_StatusMapping_NotAMarker ==
    (Returned("standardize_status") /\ NotAMarker) =>
        /\ norm_ret[1] = PyStr(ClaimedStatus(norm_arg.s))
        /\ norm_ret[1].s \in CanonicalStatuses
               <=> CleanedForm(norm_arg.s) \in StatusKeys

\* a synonym in another spelling than the table's was mapped to its
\* canonical value
C14_Witness ==
    /\ Returned("standardize_status") /\ NotAMarker
    /\ norm_arg.s # CleanedForm(norm_arg.s)
    /\ CleanedForm(norm_arg.s) \in StatusKeys
    /\ norm_ret[1].s \in CanonicalStatuses
    /\ norm_ret[1].s # CleanedForm(norm_arg.s)

\* C15 (as claimed): for every normalizer N and every input x, N(N(x)) =
\* N(x): what the normalizer returned is returned unchanged when it is
\* normalized again.
C15_Idempotence ==
    Len(norm_ret) = 2 => norm_ret[2] = norm_ret[1]

\* what a normalizer may return: text for the text normalizers, a number or
\* the empty string for the currency, a number or None for the duration
ResultKinds(fn) ==
    IF fn = "standardize_currency" THEN {"str", "float", "nan"}
    ELSE IF fn = "convert_to_hours" THEN {"float", "nan", "None"}
    ELSE {"str"}

\* C16 (as claimed): for every string, empty or null input each field
\* normalizer returns a value and never raises; the empty result is '' (None
\* for the duration normalizer).
C16_NormalizersTotal ==
    \A i \in 1..Len(norm_ret) :
        /\ norm_ret[i].t # "raise"
        /\ norm_ret[i].t \in ResultKinds(norm_fn)
        /\ (norm_fn = "standardize_currency" /\ norm_ret[i].t = "str")
               => norm_ret[i].s = <<>>

\* the pivot the claim gives: 50 and above are 19xx, below 50 are 20xx
ClaimedCentury(yy) == IF yy >= 50 THEN 1900 + yy ELSE 2000 + yy

\* the three groups of a text of the form DD s MM s YY for one separator s
\* that name a day of the calendar in the claimed year; <<>> when the text
\* has no such form
TwoDigitYearGroups(s) ==
    LET fits(sep) ==
            LET parts == Split(s, sep)
            IN  /\ Len(parts) = 3
                /\ MatchesDay(parts[1]) /\ MatchesMonth(parts[2])
                /\ MatchesYear(parts[3], 2)
                /\ DigitsToInt(strip(parts[1])) <=
                       DaysInMonth(ClaimedCentury(DigitsToInt(parts[3])),
                                   DigitsToInt(parts[2]))
    IN  IF \E sep \in DateSeparators : fits(sep)
        THEN Split(s, CHOOSE sep \in DateSeparators : fits(sep))
        ELSE <<>>

\* C19 (as claimed): for every input matched by a two-digit-year format
\* (DD/MM/YY, DD.MM.YY, DD-MM-YY) standardize_date returns the year 1900+YY
\* when YY >= 50 and 2000+YY when YY < 50.
C19_TwoDigitYearPivot ==
    (Returned("standardize_date") /\ norm_arg.t = "str"
         /\ TwoDigitYearGroups(strip(norm_arg.s)) # <<>>) =>
        LET g == TwoDigitYearGroups(strip(norm_arg.s))
        IN  norm_ret[1] =
                PyStr(FormatInt(ClaimedCentury(DigitsToInt(g[3])), 4)
                      \o <<"-">> \o FormatInt(DigitsToInt(g[2]), 2)
                      \o <<"-">> \o FormatInt(DigitsToInt(strip(g[1])), 2))

\* the text has no digit at all: it is not an otherwise numeric string
HasNoDigit(s) == \A i \in 1..Len(s) : s[i] \notin DigitChars

\* C20 (as claimed): standardize_currency applies the letter-for-digit
\* substitutions only to a letter mixed into an otherwise numeric string; an
\* input that is not an otherwise numeric string is not turned into a number
\* by them.
C20_TypoCorrectionScope ==
    (Returned("standardize_currency") /\ norm_arg.t = "str"
         /\ HasNoDigit(norm_arg.s)) =>
        norm_ret[1].t # "float"

----------------------------------------------------------------------------
(* Claims on the record cleaner *)

\* run_all_cleaning has ended: it returned, or an exception left it
RunEnded == clean_pc \in {"returned", "AttributeError", "ZeroDivisionError"}

MissingSources == {f \in Sources : raw_files[f] = Missing}

\* C17 (as claimed): when the raw file of one source cannot be loaded, that
\* source's step returns False without raising, the steps of the other two
\* sources are still executed and write their cleaned tables, and
\* run_all_cleaning returns False; it returns True exactly when all three
\* steps succeeded.
C17_MissingInputFile ==
    RunEnded =>
        /\ Cardinality(MissingSources) = 1 =>
               /\ clean_pc = "returned"
               /\ success = Val(FALSE)
               /\ \A f \in Sources \ MissingSources :
                      clean_files[f] # NotWritten
        /\ clean_pc = "returned" =>
               (success = Val(TRUE) <=> MissingSources = {})

\* a cleaned value that is not the empty result ('' or a missing value)
NonEmpty(v) == ~isna(v) /\ v # PyStr(<<>>)

\* the number of rows of the cleaned file whose column col is not empty
NonEmptyCount(source, col) ==
    Cardinality({i \in 1..Len(clean_files[source].rows) :
                     NonEmpty(clean_files[source].rows[i][col])})

\* the source a report entry is about
SourceOf(entry) ==
    IF entry.file = "Projetos_raw.csv" THEN "projetos"
    ELSE IF entry.file = "Custos_raw.csv" THEN "custos" ELSE "horas"

\* the per-field counts of an entry as the claim gives them
ClaimedCounts(entry) ==
    LET f == SourceOf(entry)
    IN  IF f = "projetos"
        THEN /\ entry.dates_standardized =
                    NonEmptyCount(f, "inicio") + NonEmptyCount(f, "prazo")
             /\ entry.conclusao_standardized = NonEmptyCount(f, "conclusao")
             /\ entry.currency_cleaned = NonEmptyCount(f, "custo_previsto")
             /\ entry.priority_lowercase = NonEmptyCount(f, "prioridade")
             /\ entry.status_lowercase = NonEmptyCount(f, "status")
        ELSE IF f = "custos"
        THEN /\ entry.dates_standardized = NonEmptyCount(f, "data")
             /\ entry.currency_cleaned = NonEmptyCount(f, "valor")
             /\ entry.centro_custo_lowercase = NonEmptyCount(f, "centro_custo")
             /\ entry.aprovado_standardized = NonEmptyCount(f, "aprovado")
        ELSE /\ entry.dates_standardized = NonEmptyCount(f, "data")
             /\ entry.time_converted = NonEmptyCount(f, "horas")
             /\ entry.remote_standardized = NonEmptyCount(f, "remoto")

\* C18 (as claimed): for each cleaned source, every per-field count of the
\* quality report entry equals the number of rows whose cleaned value for
\* that field is non-empty; a row whose field was cleaned to the empty
\* result is not counted.
C18_QualityReportCounts ==
    \A k \in 1..Len(quality_report) : ClaimedCounts(quality_report[k])

----------------------------------------------------------------------------
(* Claims on standardize_currency and standardize_date *)

\* the amount without what is written around it: the currency symbol, the
\* blanks and the annotation "(est)"
AmountText(s) ==
    SelectSeq(s, LAMBDA c : c \notin {"R", "$", " ", "(", ")", "e", "s", "t"})

Count(s, c) == Cardinality({i \in 1..Len(s) : s[i] = c})

\* of ',' and '.', the one whose last occurrence is rightmost
RightmostSeparator(s) == IF rfind(s, ",") > rfind(s, ".") THEN "," ELSE "."

\* an optional minus sign, then digits, ',' and '.', both kinds present and
\* the rightmost kind written once with a digit somewhere
IsGroupedAmount(s) ==
    LET body == IF s # <<>> /\ s[1] = "-" THEN Tail(s) ELSE s
    IN  /\ \A i \in 1..Len(body) : body[i] \in DigitChars \cup {",", "."}
        /\ \E i \in 1..Len(body) : body[i] \in DigitChars
        /\ "," \in Range(body) /\ "." \in Range(body)
        /\ Count(body, RightmostSeparator(body)) = 1

\* the number a grouped amount writes: the digits before the decimal
\* separator, the digits after it as the fraction, and the sign
GroupedAmountValue(s) ==
    LET body == IF s[1] = "-" THEN Tail(s) ELSE s
        point == rfind(body, RightmostSeparator(body))
        digits == SelectSeq(body, LAMBDA c : c \in DigitChars)
        decimals == Len(body) - point
    IN  PyFloat((IF s[1] = "-" THEN -1 ELSE 1) * DigitsToInt(digits), decimals)

\* C21: for every amount written with both ',' and '.', standardize_currency
\* takes the separator whose last occurrence is rightmost as the decimal
\* separator and drops every occurrence of the other one as thousands
\* grouping, and keeps the sign ("R$ 16.591,06" -> 16591.06, "25,000.00" ->
\* 25000.0, "R$ -5.000,00" -> -5000.0).
C21_SeparatorDisambiguation ==
    (Returned("standardize_currency") /\ norm_arg.t = "str"
         /\ IsGroupedAmount(AmountText(norm_arg.s))) =>
        norm_ret[1] = GroupedAmountValue(AmountText(norm_arg.s))

\* a negative amount with the comma as decimal separator and two grouping
\* points, written after the currency symbol, was given and its value returned
C21_Witness ==
    /\ Returned("standardize_currency") /\ norm_arg.t = "str"
    /\ "$" \in Range(norm_arg.s)
    /\ IsGroupedAmount(AmountText(norm_arg.s))
    /\ RightmostSeparator(AmountText(norm_arg.s)) = ","
    /\ Count(AmountText(norm_arg.s), ".") = 2
    /\ norm_ret[1] = PyFloat(-10000005, 1)

\* the year, middle and last groups of a 10-character text with separators
\* at positions 4 and 7 (counted from 0) and digits elsewhere; <<>> when the
\* text has no such form
YearMiddleLast(s) ==
    IF /\ Len(s) = 10
       /\ s[5] \in DateSeparators /\ s[8] \in DateSeparators
       /\ IsDigits(SubSeq(s, 1, 4)) /\ IsDigits(SubSeq(s, 6, 7))
       /\ IsDigits(SubSeq(s, 9, 10))
    THEN <<DigitsToInt(SubSeq(s, 1, 4)), DigitsToInt(SubSeq(s, 6, 7)),
           DigitsToInt(SubSeq(s, 9, 10))>>
    ELSE <<>>

\* the text YYYY-MM-DD of a year, a month and a day
YearMonthDay(y, m, d) ==
    FormatInt(y, 4) \o <<"-">> \o FormatInt(m, 2) \o <<"-">> \o FormatInt(d, 2)

\* C22 (as claimed): for every 10-character input with separators at
\* positions 4 and 7 whose middle group exceeds 12, standardize_date reads
\* the input as year-day-month and returns that day of the calendar written
\* year-month-day ("2026-25-01" -> "2026-01-25"); an input whose middle group
\* is at most 12 is not swapped.
C22_YearDayMonthCorrection ==
    (Returned("standardize_date") /\ norm_arg.t = "str"
         /\ YearMiddleLast(norm_arg.s) # <<>>) =>
        LET g == YearMiddleLast(norm_arg.s)
        IN  /\ (g[2] > 12 /\ g[1] >= 1 /\ g[3] \in 1..12
                    /\ g[2] <= DaysInMonth(g[1], g[3])) =>
                   norm_ret[1] = PyStr(YearMonthDay(g[1], g[3], g[2]))
            /\ (g[2] <= 12 /\ g[2] # g[3]) =>
                   norm_ret[1] # PyStr(YearMonthDay(g[1], g[3], g[2]))

----------------------------------------------------------------------------
(* Claims on the one-to-many join, the cost comparison and the empty key *)

\* the number of rows of table t that carry the key k
RowsWithKey(t, k) == Cardinality({i \in 1..Len(t) : t[i].match_key = k})

AtLeastOne(n) == IF n >= 1 THEN n ELSE 1

\* the row numbers of a source that are found in column id of the joined table
SourceIdsIn(m, id) == {Get(m[i][id]) : i \in {j \in 1..Len(m) : ~IsNa(m[j][id])}}

\* C23: rows with duplicate keys within one source all attach: for a MatchKey
\* carried by p project rows, h time-entry rows and c cost-entry rows the
\* joined table has exactly max(p,1) * max(h,1) * max(c,1) rows with that
\* key, and every source row appears in at least one joined row.
C23_OneToManyJoin ==
    pc \in {"joined", "done"} =>
        /\ \A k \in all_keys(projetos_df, horas_df, custos_df) :
               RowsWithKey(merged, k) =
                   AtLeastOne(RowsWithKey(projetos_df, k))
                   * AtLeastOne(RowsWithKey(horas_df, k))
                   * AtLeastOne(RowsWithKey(custos_df, k))
        /\ SourceIdsIn(merged, "projeto_source_id") = 0..(Len(projetos_df) - 1)
        /\ SourceIdsIn(merged, "horas_source_id") = 0..(Len(horas_df) - 1)
        /\ SourceIdsIn(merged, "custo_source_id") = 0..(Len(custos_df) - 1)

\* C23 witness: a key carried by two project rows, two time entries and no
\* cost entry has four joined rows, and a key only a cost entry carries has one
C23_Witness ==
    /\ pc = "joined"
    /\ \E k \in all_keys(projetos_df, horas_df, custos_df) :
           /\ RowsWithKey(projetos_df, k) = 2
           /\ RowsWithKey(horas_df, k) = 2
           /\ RowsWithKey(custos_df, k) = 0
           /\ RowsWithKey(merged, k) = 4
    /\ \E k \in all_keys(projetos_df, horas_df, custos_df) :
           /\ RowsWithKey(projetos_df, k) = 0
           /\ RowsWithKey(horas_df, k) = 0
           /\ RowsWithKey(custos_df, k) = 1
           /\ RowsWithKey(merged, k) = 1

\* C24 (as claimed): for every project row of prepare_cost_comparison_data,
\* variance_percent is (custo_real_total - custo_previsto_clean) /
\* custo_previsto_clean * 100 (to the two decimals the table keeps) when the
\* planned cost is not zero, and zero (not infinite, not undefined) when the
\* planned cost is zero.
C24_ProjectVariance ==
    pc = "done" =>
        \A i \in 1..Len(cost_comparison) :
            LET r == cost_comparison[i]
                planned == r.custo_previsto_clean
                n == (r.custo_real_total - planned) * 100
            IN  /\ ~IsNa(r.variance_percent)
                /\ Get(r.variance_percent).den # 0
                /\ IF planned = 0
                   THEN Get(r.variance_percent).num = 0
                   ELSE RatEq(Get(r.variance_percent),
                              Round2(IF planned > 0 THEN Rat(n, planned)
                                     ELSE Rat(0 - n, 0 - planned)))

\* the rows of a source table that have neither an identifier nor a name
Nameless(t) == {i \in 1..Len(t) : IsNa(t[i].project_id) /\ IsNa(t[i].projeto)}

\* the joined rows whose key is the empty string
EmptyKeyRows == {i \in 1..Len(merged) : merged[i].match_key = <<>>}

NumberOf(flags) == Cardinality({i \in 1..Len(flags) : flags[i]})

\* C25: a record with neither an identifier nor a display name gets the
\* MatchKey ""; the empty key is in the key universe like any other key, and
\* all such records of the three sources attach to it: a joined row with the
\* empty key has the data of every source that has such a record, and is
\* "full" when all three have one and "partial" when exactly two have.
C25_EmptyMatchKey ==
    pc \in {"joined", "done"} =>
        LET sources == <<projetos_df, horas_df, custos_df>>
            present == [s \in 1..3 |-> Nameless(sources[s]) # {}]
        IN  /\ \A s \in 1..3 : \A i \in Nameless(sources[s]) :
                   sources[s][i].match_key = <<>>
            /\ (\E s \in 1..3 : present[s]) =>
                   /\ Cardinality({i \in 1..Len(base_df) : base_df[i] = <<>>}) = 1
                   /\ EmptyKeyRows # {}
            /\ \A i \in EmptyKeyRows :
                   /\ merged[i].has_projeto_data = present[1]
                   /\ merged[i].has_horas_data = present[2]
                   /\ merged[i].has_custo_data = present[3]
                   /\ merged[i].match_quality = "full" <=> NumberOf(present) = 3
                   /\ merged[i].match_quality = "partial" <=> NumberOf(present) = 2
            /\ \A i \in Nameless(projetos_df) : \E j \in EmptyKeyRows :
                   merged[j].projeto_source_id = Val(i - 1)
            /\ \A i \in Nameless(horas_df) : \E j \in EmptyKeyRows :
                   merged[j].horas_source_id = Val(i - 1)
            /\ \A i \in Nameless(custos_df) : \E j \in EmptyKeyRows :
                   merged[j].custo_source_id = Val(i - 1)

\* C25 witness: each source has a record without identifier and name next to
\* an identified one, and the three nameless records meet in a "full" row
C25_Witness ==
    /\ pc = "joined"
    /\ Nameless(projetos_df) # {} /\ Nameless(horas_df) # {}
    /\ Nameless(custos_df) # {}
    /\ \E i \in 1..Len(custos_df) : custos_df[i].match_key # <<>>
    /\ \E i \in EmptyKeyRows :
           /\ merged[i].match_quality = "full"
           /\ IsNa(merged[i].project_id) /\ IsNa(merged[i].projeto)
           /\ IsNa(merged[i].project_id_horas) /\ IsNa(merged[i].projeto_horas)
           /\ IsNa(merged[i].project_id_custo) /\ IsNa(merged[i].projeto_custo)

====
